---- MODULE Spec2Model ----
(***************************************************************************)
(* pymmcore-remote: the client-side thread-affine proxy pool               *)
(* (client.py, ProxyHandler) and the server-side callback registry         *)
(* (server/_server.py, _CallbackMixin).                                    *)
(*                                                                         *)
(* Library operations the source calls are modelled by what they do:       *)
(*   cachetools.LRUCache  - `in` does not touch the order, cache[k] moves  *)
(*                          k to the most-recently-used end, popitem()     *)
(*                          removes the least-recently-used entry,         *)
(*                          cache[k] = v inserts k as most recently used;  *)
(*   Pyro5 Proxy          - a proxy is owned by the thread that created    *)
(*                          it, _pyroClaimOwnership() makes the calling    *)
(*                          thread the owner, a remote call raises         *)
(*                          PyroError when the caller is not the owner and *)
(*                          checks this once, when the call is issued.     *)
(* Each library operation is one atomic step.                              *)
(***************************************************************************)
EXTENDS Integers, Sequences, FiniteSets, TLC

\* LRUCache(maxsize=4)
maxsize == 4

\* client threads calling through one pool: one more than the pool has entries
NumThreads == maxsize + 1

\* how many threads may be inside _proxy_attr or a remote call at the same time
MaxBusy == 2

Threads == 1..NumThreads

NoThread == 0

NoProxy == 0

\* client-side subscriber callbacks connected to events objects (round-robin runs)
MaxSubs == 2

\* server threads that raise events on the event source
NumWorkers == 2

\* client-side callback handlers known to the server
NumHandlers == 2

\* events raised on the event source in one run
MaxEmits == 2

\* steps of the sequence that is run
NumSteps == 4

\* the largest timeout given to server_process, in tenths of a second
MaxTimeout == 2

\* the host and port pairs given to server_process
NumAddrs == 2

Addrs == 1..NumAddrs

NoAddr == 0

\* the threads of the client program that ask for pools or decode values
NumIThreads == 2

IThreads == 1..NumIThreads

\* how many pools the program constructs at most
MaxPools == 2

NoPool == 0

\* the identifying fields of a back-reference value (a device label, ...)
NumLabels == 2

Labels == 1..NumLabels

NoLabel == 0

\* DEFAULT_URI, the address a pool constructed with uri=None gets
DEFAULT_URI == 1

\* the key str(None)
NoneKey == 0

\* the key of the runner pool that the pool for address a constructs
RunnerKey(a) == NumAddrs + a

Keys == {NoneKey} \cup Addrs \cup {RunnerKey(a) : a \in Addrs}

\* the values of the argument uri: None, a string, or a Pyro URI object
UriArgs ==
    {[kind |-> "none", a |-> NoAddr]}
        \cup {[kind |-> k, a |-> a] : k \in {"str", "uri"}, a \in Addrs}

NoValue == [label |-> NoLabel, core |-> NoPool]

\* SHM_SENT = deque(maxlen=15)
maxlen == 15

\* how many arrays the sender encodes at most
MaxSends == 17

\* the sizes of the arrays in bytes: 0..MaxBytes
MaxBytes == 2

\* how many envelopes are under way at most
MaxInFlight == 1

\* how many envelopes are lost at most
MaxDrops == 1

NoEnv == [shm |-> 0, nbytes |-> 0]

Workers == 1..NumWorkers

Handlers == 1..NumHandlers

NoHandler == 0

VARIABLES
    \* --- client: ProxyHandler (client.py)
    cache,      \* _proxy_cache: sequence of [thread, proxy], least recently used first
    lock,       \* _proxy_lock: the thread holding it, or NoThread
    pc,         \* where each thread is in _proxy_attr and in the call that follows it
    proxy,      \* the local variable `proxy` of _proxy_attr, per thread
    attr,       \* the proxy whose attribute _proxy_attr returned to the thread
    owner,      \* the owner thread of every proxy created so far
    conn,       \* per proxy: the threads with a call in flight on its connection, first first
    registered, \* the proxies whose events object was connected to the server (line 75), in order
    callers,    \* history: the threads that ever called through the pool
    served,     \* history: the proxies that served each thread, kept while the callers fit the pool
    evicted,    \* history: the threads whose entry was evicted and that have none since
    \* --- client: event handlers calling back through the pool
    waiting,    \* per thread: the thread running the handler its in-flight call waits for
    running,    \* per thread: the thread whose in-flight call raised the event it handles
    \* --- client: threads taking turns, subscribers of the events objects
    turn,       \* the thread whose turn it is
    subs,       \* per subscriber callback: the proxy whose events object it is connected to
    deliv,      \* per subscriber callback: how often the last event was delivered to it
    \* --- server: _CallbackMixin (server/_server.py)
    handlers,   \* _callback_handlers
    hOwner,     \* per handler proxy: the server thread owning it
    reach,      \* per handler: whether its client can be reached
    epc,        \* per server thread: where it is in emit_signal
    snap,       \* per server thread: list(self._callback_handlers) of its emission
    todo,       \* per server thread: the part of the list the for loop has not reached
    cur,        \* per server thread: the loop variable `handler`
    rcvd,       \* per server thread: the handlers that received the event of its emission
    cfail,      \* per server thread: the handlers whose delivery raised CommunicationError
    hrun,       \* per handler: the server threads whose event it is processing
    emitted,    \* number of events raised so far
    eno,        \* per server thread: the number of the event of its emission, in emission order
    last,       \* per handler: the highest event number it has received
    count,      \* per server thread and handler: how often its emission was delivered to the handler
    \* --- server: a sequence run by RemoteMDARunner, and its frame handler on the client
    mpc,        \* where the runner is in its run
    mrun,       \* the runner's running flag, what is_running() returns
    mcancel,    \* the runner's cancel flag, set by cancel()
    mstep,      \* the step of the sequence at hand
    executed,   \* the last step executed
    frames,     \* the step of the last frame event delivered to the client's handler
    hstep,      \* the step whose frame event the client's handler is processing, or 0
    cancelAt,   \* history: the step at hand when cancel was first issued, or 0
    hcancelAt,  \* history: the step in whose frame handler cancel was first called, or 0
    obs,        \* what the client's last call of is_running() returned, or "none"
    \* --- server_process (server/_server.py), used as `with server_process(...) as proc:`
    ppc,        \* where control is: in server_process, in the body of the with statement, or gone
    addr,       \* the arguments host and port
    budget,     \* the local variable timeout, in tenths of a second
    ext,        \* whether a server that server_process did not spawn serves at host:port
    child,      \* the child process: "none", "starting", "serving", "exited" or "waited"
    childAddr,  \* the host and port the child was started with
    nspawn,     \* how many children were spawned
    yielded,    \* what the with statement got: "nothing", "None" or "proc"
    thrown,     \* whether an exception of the body was thrown into the generator
    entryOk,    \* history: whether the probe at entry succeeded
    outcome,    \* how control left the with statement: "none", "normal" or an exception
    \* --- client: ProxyHandler._instances and the decoding of values (client.py, _serialize.py)
    instances,  \* _instances: key -> the pool registered under it, or NoPool
    pools,      \* the pools constructed so far: pools[p] is the address of pool p
    conns,      \* the pools whose constructor made its connection and registered its handler
    ipc,        \* per thread: where it is in instance(), in __init__ or in from_dict
    iop,        \* per thread: "instance", "direct" (the constructor) or "decode" (from_dict)
    iuri,       \* per thread: the argument uri
    ikey,       \* per thread: the local variable key of instance()
    ifields,    \* per thread: the identifying fields of the envelope being decoded
    imine,      \* per thread: the pool its constructor is building, or NoPool
    ifound,     \* per thread: whether instance() found its key registered
    ires,       \* per thread: the pool the call returned, or NoPool
    ierr,       \* per thread: the exception the call raised, or "none"
    ival,       \* per thread: the decoded value, [label, core]
    held,       \* history: the pools the program got from a constructor or from instance()
    broken,     \* history: the pools whose constructor raised
    direct,     \* history: whether the program called the constructor itself
    first,      \* history: address -> the pool the first instance() for it returned
    created,    \* history: address -> how many pools instance() constructed for it
    ihad,       \* history, per thread: whether the program held a pool for the address at the call
    \* --- SerNDArray and _cleanup (_serialize.py): arrays sent through shared memory
    nsent,      \* how many segments the sender created; their names are 1..nsent
    SHM_SENT,   \* SerNDArray.SHM_SENT: the names of the tracked segments, oldest first
    segs,       \* the segments that exist in the operating system: [name, size]
    flight,     \* the envelopes sent and not yet decoded: [shm, nbytes]
    ropen,      \* the envelope whose segment the receiver has mapped and copied, or NoEnv
    rerr,       \* history: where a decode raised FileNotFoundError: "none", "open" or "unlink"
    decoded,    \* history: the names of the segments whose data a decode copied out
    ndrop,      \* how many envelopes were lost before any receiver decoded them
    encFailed,  \* history: whether an encode raised
    spc,        \* the sender process: "run", "cleanup" (in _cleanup at exit) or "exited"
    todoC,      \* the segments _cleanup has still to visit
    \* --- PymmcoreSerializer and the registered Serializer classes (_serialize.py)
    serpc,      \* "idle", "sent" (the message is on the wire), "received" or "raised"
    sval,       \* the value a process sends
    spos,       \* where it sits: "result" (the return value of a call) or "arg" (an argument)
    wire,       \* what msgpack packed
    sbuf,       \* the contents of the shared memory segment the encoding created
    rval,       \* the value the other process gets, or the exception its decoding raised
    \* --- serve and register_serializers (server/_server.py, _serialize.py)
    svpc,       \* serve: "idle", "listening" (in requestLoop), "stopped" or "raised"
    SERIALIZER, \* Pyro5.config.SERIALIZER
    configured, \* the serializer the deployment configured before startup
    plugin,     \* whether msgpack_numpy can be imported
    strategy,   \* the array strategy registered: "none", "inline" or "shm"
    single,     \* whether the daemon holds the one RemoteCMMCorePlus instance
    nfail,      \* how many constructions of the facade have failed
    cpc,        \* per client: "idle" or "sent" (a call is with the daemon)
    cres,       \* per client: what its last call gave: "none", "pong" or "error"
    \* --- _DaemonThread, the callback listener of a client process (client.py)
    lpc,        \* per thread: its position in _DaemonThread.instance
    registry,   \* _DaemonThread._instances["CallbackDaemon"], or NoListener
    alive,      \* the listeners (daemon and thread) that have been started
    lgot,       \* per thread: the listener instance() returned to it
    nregs,      \* per listener: how many handlers are registered with it
    nconn       \* per thread: how many connections it has created

poolVars == <<cache, lock, pc, proxy, attr, owner, conn, registered, callers, served, evicted>>

reentVars == <<waiting, running>>

rrVars == <<turn, subs, deliv>>

emitVars ==
    <<handlers, hOwner, reach, epc, snap, todo, cur, rcvd, cfail, hrun, emitted,
      eno, last, count>>

mdaVars == <<mpc, mrun, mcancel, mstep, executed, frames, hstep, cancelAt, hcancelAt, obs>>

procVars ==
    <<ppc, addr, budget, ext, child, childAddr, nspawn, yielded, thrown, entryOk, outcome>>

instVars ==
    <<instances, pools, conns, ipc, iop, iuri, ikey, ifields, imine, ifound, ires, ierr, ival,
      held, broken, direct, first, created, ihad>>

shmVars ==
    <<nsent, SHM_SENT, segs, flight, ropen, rerr, decoded, ndrop, encFailed, spc, todoC>>

serVars == <<serpc, sval, spos, wire, sbuf, rval>>

srvVars == <<svpc, SERIALIZER, configured, plugin, strategy, single, nfail, cpc, cres>>

lsnVars == <<lpc, registry, alive, lgot, nregs, nconn>>

extVars == <<mdaVars, procVars, instVars, shmVars, serVars, srvVars, lsnVars>>

vars == <<poolVars, reentVars, rrVars, emitVars, extVars>>

----------------------------------------------------------------------------
(* cachetools.LRUCache, as _proxy_attr uses it *)

\* thread in cache
InCache(c, t) == \E i \in 1..Len(c) : c[i].thread = t

\* the position of t's entry
IndexOf(c, t) == CHOOSE i \in 1..Len(c) : c[i].thread = t

\* cache[thread], the value
ProxyOf(c, t) == c[IndexOf(c, t)].proxy

\* the sequence without its i-th entry
Without(c, i) == [j \in 1..(Len(c) - 1) |-> IF j < i THEN c[j] ELSE c[j + 1]]

\* cache[thread], the effect: the entry becomes the most recently used
Touch(c, t) == Append(Without(c, IndexOf(c, t)), c[IndexOf(c, t)])

HasRoomTight(c) == Len(c) < maxsize - 1

\* len(cache) < cache.maxsize
HasRoom(c) == Len(c) < maxsize

PopItemMRU(c) == [item |-> c[Len(c)], rest |-> SubSeq(c, 1, Len(c) - 1)]

\* cache.popitem(): the least recently used entry, and what is left
PopItem(c) == [item |-> Head(c), rest |-> Tail(c)]

\* what cache[thread] = proxy leaves of the old entries: an entry of the same
\* thread is replaced, and a full cache drops its least recently used entry
MakeRoom(c, t) ==
    IF InCache(c, t) THEN Without(c, IndexOf(c, t))
    ELSE IF Len(c) >= maxsize THEN Tail(c)
    ELSE c

\* cache[thread] = proxy: the entry becomes the most recently used
SetItem(c, t, p) == Append(MakeRoom(c, t), [thread |-> t, proxy |-> p])

\* the threads that have an entry, the proxies that are in an entry
CacheThreads(c) == {c[i].thread : i \in 1..Len(c)}

CacheProxies(c) == {c[i].proxy : i \in 1..Len(c)}

----------------------------------------------------------------------------
(* Pyro5 proxies, as the client uses them *)

\* the proxies created so far
Created == DOMAIN owner

OneProxyForAll(o) == 1

\* self._proxy_type(uri=..., connected_socket=...): a proxy nobody has yet
NewProxy(o) == Cardinality(DOMAIN o) + 1

KeepOwner(o, p, t) == o

\* proxy._pyroClaimOwnership()
ClaimOwnership(o, p, t) == [o EXCEPT ![p] = t]

\* the owner check of a remote call
IsOwner(o, p, t) == o[p] = t

----------------------------------------------------------------------------
(* ProxyHandler._proxy_attr and the call on what it returns,               *)
(* one action per step of a thread                                         *)

\* the threads inside _proxy_attr or inside the call that follows it
Busy == {u \in Threads : pc[u] # "idle"}

\* threading.current_thread() not seen before: the history of who called
Called(t) == callers \cup {t}

\* line 166: if thread not in cache, read without the lock
Check(t) ==
    /\ pc[t] = "idle"
    /\ Cardinality(Busy) < MaxBusy
    /\ callers' = Called(t)
    /\ served' = IF Cardinality(Called(t)) <= maxsize
                 THEN served ELSE [u \in Threads |-> {}]
    /\ pc' = [pc EXCEPT ![t] = IF InCache(cache, t) THEN "lookup" ELSE "wait"]
    /\ UNCHANGED <<cache, lock, proxy, attr, owner, conn, registered, evicted>>

\* lines 167-172: the lock is taken and the cache is not full; a new proxy,
\* owned by the thread that creates it, whose __init__ connects its events
\* object to the server
Create(t) ==
    /\ pc[t] = "wait"
    /\ lock = NoThread
    /\ HasRoom(cache)
    /\ lock' = t
    /\ LET p == NewProxy(owner) IN
        /\ owner' = (p :> t) @@ owner
        /\ conn' = (p :> <<>>) @@ conn
        /\ proxy' = [proxy EXCEPT ![t] = p]
        /\ registered' = Append(registered, p)
    /\ pc' = [pc EXCEPT ![t] = "insert"]
    /\ UNCHANGED <<cache, attr, callers, served, evicted>>

\* lines 167-176: the lock is taken and the cache is full; the lru proxy is
\* popped and claimed
Evict(t) ==
    /\ pc[t] = "wait"
    /\ lock = NoThread
    /\ ~HasRoom(cache)
    /\ lock' = t
    /\ LET popped == PopItem(cache) IN
        /\ cache' = popped.rest
        /\ proxy' = [proxy EXCEPT ![t] = popped.item.proxy]
        /\ owner' = ClaimOwnership(owner, popped.item.proxy, t)
    /\ evicted' = evicted \cup (CacheThreads(cache) \ CacheThreads(cache'))
    /\ pc' = [pc EXCEPT ![t] = "insert"]
    /\ UNCHANGED <<attr, conn, registered, callers, served>>

\* line 178, and the end of the with block
Insert(t) ==
    /\ pc[t] = "insert"
    /\ cache' = SetItem(cache, t, proxy[t])
    /\ evicted' = (evicted \cup (CacheThreads(cache) \ CacheThreads(cache'))) \ {t}
    /\ lock' = NoThread
    /\ pc' = [pc EXCEPT ![t] = "lookup"]
    /\ UNCHANGED <<proxy, attr, owner, conn, registered, callers, served>>

\* line 181: getattr(cache[thread], name), the entry is there
Lookup(t) ==
    /\ pc[t] = "lookup"
    /\ InCache(cache, t)
    /\ attr' = [attr EXCEPT ![t] = ProxyOf(cache, t)]
    /\ served' = IF Cardinality(callers) <= maxsize
                 THEN [served EXCEPT ![t] = @ \cup {ProxyOf(cache, t)}]
                 ELSE served
    /\ cache' = Touch(cache, t)
    /\ pc' = [pc EXCEPT ![t] = "attr"]
    /\ UNCHANGED <<lock, proxy, owner, conn, registered, callers, evicted>>

\* line 181: cache[thread] raises KeyError, the entry is gone
LookupMissing(t) ==
    /\ pc[t] = "lookup"
    /\ ~InCache(cache, t)
    /\ pc' = [pc EXCEPT ![t] = "KeyError"]
    /\ UNCHANGED <<cache, lock, proxy, attr, owner, conn, registered, callers, served, evicted>>

\* the thread calls the remote method it was handed: the owner check passes
Invoke(t) ==
    /\ pc[t] = "attr"
    /\ IsOwner(owner, attr[t], t)
    /\ conn' = [conn EXCEPT ![attr[t]] = Append(@, t)]
    /\ pc' = [pc EXCEPT ![t] = "incall"]
    /\ UNCHANGED <<cache, lock, proxy, attr, owner, registered, callers, served, evicted>>

\* the thread calls the remote method it was handed: PyroError, not the owner
InvokeNotOwner(t) ==
    /\ pc[t] = "attr"
    /\ ~IsOwner(owner, attr[t], t)
    /\ pc' = [pc EXCEPT ![t] = "PyroError"]
    /\ UNCHANGED <<cache, lock, proxy, attr, owner, conn, registered, callers, served, evicted>>

\* the call is the one the server works on: the daemon serves the requests of
\* one connection one at a time, in the order they came in
Serving(t) == conn[attr[t]] # <<>> /\ Head(conn[attr[t]]) = t

\* the remote call returns its result; the server has by then run emit_signal
\* for the events the call raised, so no handler of them is still running
Return(t) ==
    /\ pc[t] = "incall"
    /\ Serving(t)
    /\ waiting[t] = NoThread
    /\ conn' = [conn EXCEPT ![attr[t]] = Tail(@)]
    /\ pc' = [pc EXCEPT ![t] = "idle"]
    /\ attr' = [attr EXCEPT ![t] = NoProxy]
    /\ proxy' = [proxy EXCEPT ![t] = NoProxy]
    /\ UNCHANGED <<cache, lock, owner, registered, callers, served, evicted>>

\* the exception leaves _proxy_attr or the call; the thread may call again
Raise(t) ==
    /\ pc[t] \in {"KeyError", "PyroError"}
    /\ pc' = [pc EXCEPT ![t] = "idle"]
    /\ attr' = [attr EXCEPT ![t] = NoProxy]
    /\ proxy' = [proxy EXCEPT ![t] = NoProxy]
    /\ UNCHANGED <<cache, lock, owner, conn, registered, callers, served, evicted>>

\* ProxyHandler.__init__: an empty cache, a free lock
InitPool ==
    /\ cache = <<>>
    /\ lock = NoThread
    /\ pc = [t \in Threads |-> "idle"]
    /\ proxy = [t \in Threads |-> NoProxy]
    /\ attr = [t \in Threads |-> NoProxy]
    /\ owner = <<>>
    /\ conn = <<>>
    /\ registered = <<>>
    /\ callers = {}
    /\ served = [t \in Threads |-> {}]
    /\ evicted = {}

\* no event handler is running
InitReent ==
    /\ waiting = [t \in Threads |-> NoThread]
    /\ running = [t \in Threads |-> NoThread]

\* no subscriber callback is connected
InitRR ==
    /\ turn = 1
    /\ subs = <<>>
    /\ deliv = <<>>

\* _CallbackMixin.__init__: an empty handler set; no emission is under way
InitEmit ==
    /\ handlers = {}
    /\ hOwner = [h \in Handlers |-> 0]
    /\ reach = [h \in Handlers |-> TRUE]
    /\ epc = [e \in Workers |-> "idle"]
    /\ snap = [e \in Workers |-> {}]
    /\ todo = [e \in Workers |-> {}]
    /\ cur = [e \in Workers |-> NoHandler]
    /\ rcvd = [e \in Workers |-> {}]
    /\ cfail = [e \in Workers |-> {}]
    /\ hrun = [h \in Handlers |-> {}]
    /\ emitted = 0
    /\ eno = [e \in Workers |-> 0]
    /\ last = [h \in Handlers |-> 0]
    /\ count = [e \in Workers |-> [h \in Handlers |-> 0]]

\* no sequence is running
InitMDA ==
    /\ mpc = "idle"
    /\ mrun = FALSE
    /\ mcancel = FALSE
    /\ mstep = 0
    /\ executed = 0
    /\ frames = 0
    /\ hstep = 0
    /\ cancelAt = 0
    /\ hcancelAt = 0
    /\ obs = "none"

\* server_process has not been called; nobody serves
InitProc ==
    /\ ppc = "call"
    /\ addr = NoAddr
    /\ budget = 0
    /\ ext = FALSE
    /\ child = "none"
    /\ childAddr = NoAddr
    /\ nspawn = 0
    /\ yielded = "nothing"
    /\ thrown = FALSE
    /\ entryOk = FALSE
    /\ outcome = "none"

\* no pool has been constructed, _instances is empty
InitInst ==
    /\ instances = [k \in Keys |-> NoPool]
    /\ pools = <<>>
    /\ conns = {}
    /\ ipc = [t \in IThreads |-> "idle"]
    /\ iop = [t \in IThreads |-> "none"]
    /\ iuri = [t \in IThreads |-> [kind |-> "none", a |-> NoAddr]]
    /\ ikey = [t \in IThreads |-> NoneKey]
    /\ ifields = [t \in IThreads |-> NoLabel]
    /\ imine = [t \in IThreads |-> NoPool]
    /\ ifound = [t \in IThreads |-> FALSE]
    /\ ires = [t \in IThreads |-> NoPool]
    /\ ierr = [t \in IThreads |-> "none"]
    /\ ival = [t \in IThreads |-> NoValue]
    /\ held = {}
    /\ broken = {}
    /\ direct = FALSE
    /\ first = [a \in Addrs |-> NoPool]
    /\ created = [a \in Addrs |-> 0]
    /\ ihad = [t \in IThreads |-> FALSE]

\* the sender has encoded no array yet
InitShm ==
    /\ nsent = 0
    /\ SHM_SENT = <<>>
    /\ segs = {}
    /\ flight = {}
    /\ ropen = NoEnv
    /\ rerr = "none"
    /\ decoded = {}
    /\ ndrop = 0
    /\ encFailed = FALSE
    /\ spc = "run"
    /\ todoC = <<>>

\* A Python value or a msgpack value: its kind k, the class name cls it carries,
\* two numbers v and w, and its items (a container's elements, an array's
\* contents, a mapping's values).
Val(k, cls, v, w, items) == [k |-> k, cls |-> cls, v |-> v, w |-> w, items |-> items]

NoVal == Val("none", "", 0, 0, <<>>)

InitSer ==
    /\ serpc = "idle"
    /\ sval = NoVal
    /\ spos = "result"
    /\ wire = NoVal
    /\ sbuf = <<>>
    /\ rval = NoVal

NumClients == 2
Clients == 1..NumClients

InitServe ==
    /\ svpc = "idle"
    /\ SERIALIZER = "serpent"
    /\ configured = "serpent"
    /\ plugin = FALSE
    /\ strategy = "none"
    /\ single = FALSE
    /\ nfail = 0
    /\ cpc = [c \in Clients |-> "idle"]
    /\ cres = [c \in Clients |-> "none"]

NumLThreads == 2
LThreads == 1..NumLThreads
NoListener == 0

InitListen ==
    /\ lpc = [t \in LThreads |-> "idle"]
    /\ registry = NoListener
    /\ alive = {}
    /\ lgot = [t \in LThreads |-> NoListener]
    /\ nregs = [l \in LThreads |-> 0]
    /\ nconn = [t \in LThreads |-> 0]

Init ==
    /\ InitPool /\ InitReent /\ InitRR /\ InitEmit /\ InitMDA /\ InitProc /\ InitInst /\ InitShm
    /\ InitSer /\ InitServe /\ InitListen

----------------------------------------------------------------------------
(* Threads calling through the pool in any interleaving *)

Next ==
    \E t \in Threads :
        \/ Check(t) /\ UNCHANGED <<extVars, reentVars, rrVars, emitVars>>
        \/ Create(t) /\ UNCHANGED <<extVars, reentVars, rrVars, emitVars>>
        \/ Evict(t) /\ UNCHANGED <<extVars, reentVars, rrVars, emitVars>>
        \/ Insert(t) /\ UNCHANGED <<extVars, reentVars, rrVars, emitVars>>
        \/ Lookup(t) /\ UNCHANGED <<extVars, reentVars, rrVars, emitVars>>
        \/ LookupMissing(t) /\ UNCHANGED <<extVars, reentVars, rrVars, emitVars>>
        \/ Invoke(t) /\ UNCHANGED <<extVars, reentVars, rrVars, emitVars>>
        \/ InvokeNotOwner(t) /\ UNCHANGED <<extVars, reentVars, rrVars, emitVars>>
        \/ Return(t) /\ UNCHANGED <<extVars, reentVars, rrVars, emitVars>>
        \/ Raise(t) /\ UNCHANGED <<extVars, reentVars, rrVars, emitVars>>

Spec == Init /\ [][Next]_vars

----------------------------------------------------------------------------
(* Threads calling through the pool one after the other, in turns; every   *)
(* call raises one event on the server, which emit_signal delivers to the  *)
(* registered handlers, and each handler, the events object of a proxy,    *)
(* passes it to the subscriber callbacks connected to it                   *)
(* (receive_server_callback, client.py lines 83-87)                        *)

NextTurn(t) == IF t = NumThreads THEN 1 ELSE t + 1

\* how often one event reaches each subscriber callback
Delivered ==
    [s \in 1..Len(subs) |->
        Cardinality({i \in 1..Len(registered) : registered[i] = subs[s]})]

\* proxy.events.<signal>.connect(callback): events is a local attribute of
\* the proxy _proxy_attr picked, set in its __init__ (lines 69-70)
Subscribe(t) ==
    /\ pc[t] = "attr"
    /\ Len(subs) < MaxSubs
    /\ subs' = Append(subs, attr[t])
    /\ deliv' = Append(deliv, 0)
    /\ pc' = [pc EXCEPT ![t] = "idle"]
    /\ attr' = [attr EXCEPT ![t] = NoProxy]
    /\ proxy' = [proxy EXCEPT ![t] = NoProxy]
    /\ turn' = NextTurn(t)
    /\ UNCHANGED <<cache, lock, owner, conn, registered, callers, served, evicted>>

\* the call returns; its event has been delivered
ReturnInTurn(t) ==
    /\ Return(t)
    /\ deliv' = Delivered
    /\ turn' = NextTurn(t)
    /\ UNCHANGED subs

\* the thread whose turn it is takes a step
InTurn(t) == turn = t

NextRR ==
    \E t \in Threads :
        \/ InTurn(t) /\ Check(t) /\ UNCHANGED <<extVars, reentVars, rrVars, emitVars>>
        \/ InTurn(t) /\ Create(t) /\ UNCHANGED <<extVars, reentVars, rrVars, emitVars>>
        \/ InTurn(t) /\ Evict(t) /\ UNCHANGED <<extVars, reentVars, rrVars, emitVars>>
        \/ InTurn(t) /\ Insert(t) /\ UNCHANGED <<extVars, reentVars, rrVars, emitVars>>
        \/ InTurn(t) /\ Lookup(t) /\ UNCHANGED <<extVars, reentVars, rrVars, emitVars>>
        \/ InTurn(t) /\ Invoke(t) /\ UNCHANGED <<extVars, reentVars, rrVars, emitVars>>
        \/ InTurn(t) /\ Subscribe(t) /\ UNCHANGED <<extVars, reentVars, emitVars>>
        \/ InTurn(t) /\ ReturnInTurn(t) /\ UNCHANGED <<extVars, reentVars, emitVars>>

SpecRR == Init /\ [][NextRR]_vars

----------------------------------------------------------------------------
(* Event handlers calling back through the pool: while the call of thread  *)
(* c is in flight the server raises an event and emit_signal, which runs   *)
(* inside that call, waits in receive_server_callback for the handler; the *)
(* handler runs on another client thread and may call through the pool     *)

\* the threads of the application, which call when they like, and the worker
\* thread of the client's callback daemon, which calls only from a handler
AppThreads == 1..maxsize

MayCall(t) == t \in AppThreads \/ running[t] # NoThread

\* the handler of an event raised by c's call starts on thread t
HandlerStart(c, t) ==
    /\ c # t
    /\ t \notin AppThreads
    /\ pc[c] = "incall"
    /\ Serving(c)
    /\ waiting[c] = NoThread
    /\ pc[t] = "idle"
    /\ running[t] = NoThread
    /\ waiting' = [waiting EXCEPT ![c] = t]
    /\ running' = [running EXCEPT ![t] = c]
    /\ UNCHANGED poolVars

\* the handler returns; emit_signal and then the call that raised the event go on
HandlerEnd(t) ==
    /\ running[t] # NoThread
    /\ pc[t] = "idle"
    /\ waiting' = [waiting EXCEPT ![running[t]] = NoThread]
    /\ running' = [running EXCEPT ![t] = NoThread]
    /\ UNCHANGED poolVars

NextReent ==
    \/ \E t \in Threads :
        \/ MayCall(t) /\ Check(t) /\ UNCHANGED <<extVars, reentVars, rrVars, emitVars>>
        \/ Create(t) /\ UNCHANGED <<extVars, reentVars, rrVars, emitVars>>
        \/ Evict(t) /\ UNCHANGED <<extVars, reentVars, rrVars, emitVars>>
        \/ Insert(t) /\ UNCHANGED <<extVars, reentVars, rrVars, emitVars>>
        \/ Lookup(t) /\ UNCHANGED <<extVars, reentVars, rrVars, emitVars>>
        \/ LookupMissing(t) /\ UNCHANGED <<extVars, reentVars, rrVars, emitVars>>
        \/ Invoke(t) /\ UNCHANGED <<extVars, reentVars, rrVars, emitVars>>
        \/ Return(t) /\ UNCHANGED <<extVars, reentVars, rrVars, emitVars>>
        \/ Raise(t) /\ UNCHANGED <<extVars, reentVars, rrVars, emitVars>>
        \/ HandlerEnd(t) /\ UNCHANGED <<extVars, rrVars, emitVars>>
    \/ \E c, t \in Threads : HandlerStart(c, t) /\ UNCHANGED <<extVars, rrVars, emitVars>>

SpecReent == Init /\ [][NextReent]_vars

----------------------------------------------------------------------------
(* _CallbackMixin (server/_server.py lines 46-75): connect, disconnect and *)
(* emit_signal, one action per step of a server thread. A handler is the   *)
(* Pyro proxy of a client's events object; the call                        *)
(* handler.receive_server_callback(...) is an ordinary remote call, which  *)
(* returns when the client has run the subscriber callbacks.               *)

\* the server threads inside emit_signal
Emitting == {e \in Workers : epc[e] \in {"loop", "claimed", "sent"}}

\* self._callback_handlers.add(handler), line 61; the proxy that arrives with
\* the call belongs to the server thread that serves the call. A handler that
\* was discarded comes back as a new proxy object: the model lets it come
\* back once no emission has the old one in its copy
Connect(w, h) ==
    /\ w \notin Emitting
    /\ reach[h]
    /\ h \notin handlers => \A e \in Emitting : h \notin snap[e]
    /\ handlers' = handlers \cup {h}
    /\ hOwner' = IF h \in handlers THEN hOwner ELSE [hOwner EXCEPT ![h] = w]
    /\ UNCHANGED <<reach, epc, snap, todo, cur, rcvd, cfail, hrun, emitted, eno, last, count>>

\* self._callback_handlers.discard(handler), line 66
Disconnect(h) ==
    /\ h \in handlers
    /\ handlers' = handlers \ {h}
    /\ UNCHANGED <<hOwner, reach, epc, snap, todo, cur, rcvd, cfail, hrun, emitted, eno, last, count>>

\* the client of a handler goes away: it disconnected, crashed, or the network did
Unreachable(h) ==
    /\ reach[h]
    /\ reach' = [reach EXCEPT ![h] = FALSE]
    /\ hrun' = [hrun EXCEPT ![h] = {}]
    /\ UNCHANGED <<handlers, hOwner, epc, snap, todo, cur, rcvd, cfail, emitted, eno, last, count>>

\* list(self._callback_handlers), line 70
Snapshot(H) == H

\* line 70: the event source calls emit_signal, which copies the handler set
StartEmit(e) ==
    /\ e \notin Emitting
    /\ emitted < MaxEmits
    /\ emitted' = emitted + 1
    /\ snap' = [snap EXCEPT ![e] = Snapshot(handlers)]
    /\ todo' = [todo EXCEPT ![e] = Snapshot(handlers)]
    /\ rcvd' = [rcvd EXCEPT ![e] = {}]
    /\ cfail' = [cfail EXCEPT ![e] = {}]
    /\ cur' = [cur EXCEPT ![e] = NoHandler]
    /\ epc' = [epc EXCEPT ![e] = "loop"]
    /\ eno' = [eno EXCEPT ![e] = emitted + 1]
    /\ count' = [count EXCEPT ![e] = [h \in Handlers |-> 0]]
    /\ UNCHANGED <<handlers, hOwner, reach, hrun, last>>

RemainingLive(e) == handlers \ (rcvd[e] \cup cfail[e])

\* what the for loop of line 70 has left: the rest of the copy
Remaining(e) == todo[e]

\* lines 70-72: the loop takes the next handler of the copy, in whatever order
\* the list has, and claims its proxy for this thread
Claim(e, h) ==
    /\ epc[e] = "loop"
    /\ h \in Remaining(e)
    /\ todo' = [todo EXCEPT ![e] = @ \ {h}]
    /\ cur' = [cur EXCEPT ![e] = h]
    /\ hOwner' = [hOwner EXCEPT ![h] = e]
    /\ epc' = [epc EXCEPT ![e] = "claimed"]
    /\ UNCHANGED <<handlers, reach, snap, rcvd, cfail, hrun, emitted, eno, last, count>>

SendOneway(e) ==
    /\ epc[e] = "claimed"
    /\ hOwner[cur[e]] = e
    /\ reach[cur[e]]
    /\ rcvd' = [rcvd EXCEPT ![e] = @ \cup {cur[e]}]
    /\ hrun' = [hrun EXCEPT ![cur[e]] = @ \cup {e}]
    /\ epc' = [epc EXCEPT ![e] = "loop"]
    /\ count' = [count EXCEPT ![e][cur[e]] = @ + 1]
    /\ last' = [last EXCEPT ![cur[e]] = IF eno[e] > @ THEN eno[e] ELSE @]
    /\ UNCHANGED <<handlers, hOwner, reach, snap, todo, cur, cfail, emitted, eno>>

\* line 73: the call goes out, the handler receives the event and starts to
\* process it; the server thread waits for the reply
Send(e) ==
    /\ epc[e] = "claimed"
    /\ hOwner[cur[e]] = e
    /\ reach[cur[e]]
    /\ rcvd' = [rcvd EXCEPT ![e] = @ \cup {cur[e]}]
    /\ hrun' = [hrun EXCEPT ![cur[e]] = @ \cup {e}]
    /\ epc' = [epc EXCEPT ![e] = "sent"]
    /\ count' = [count EXCEPT ![e][cur[e]] = @ + 1]
    /\ last' = [last EXCEPT ![cur[e]] = IF eno[e] > @ THEN eno[e] ELSE @]
    /\ UNCHANGED <<handlers, hOwner, reach, snap, todo, cur, cfail, emitted, eno>>

\* line 73: PyroError, another server thread has claimed the proxy meanwhile;
\* the exception is not caught and leaves emit_signal
SendNotOwner(e) ==
    /\ epc[e] = "claimed"
    /\ hOwner[cur[e]] # e
    /\ epc' = [epc EXCEPT ![e] = "raised"]
    /\ UNCHANGED <<handlers, hOwner, reach, snap, todo, cur, rcvd, cfail, hrun, emitted, eno, last, count>>

CommFailureKeeps(e) ==
    /\ epc[e] \in {"claimed", "sent"}
    /\ epc[e] = "claimed" => hOwner[cur[e]] = e
    /\ ~reach[cur[e]]
    /\ cfail' = [cfail EXCEPT ![e] = @ \cup {cur[e]}]
    /\ epc' = [epc EXCEPT ![e] = "loop"]
    /\ UNCHANGED <<handlers, hOwner, reach, snap, todo, cur, rcvd, hrun, emitted, eno, last, count>>

\* lines 74-75: the call raises CommunicationError, when it goes out or while
\* the thread waits for the reply; the handler is discarded and the loop goes on
CommFailure(e) ==
    /\ epc[e] \in {"claimed", "sent"}
    /\ epc[e] = "claimed" => hOwner[cur[e]] = e
    /\ ~reach[cur[e]]
    /\ handlers' = handlers \ {cur[e]}
    /\ cfail' = [cfail EXCEPT ![e] = @ \cup {cur[e]}]
    /\ epc' = [epc EXCEPT ![e] = "loop"]
    /\ UNCHANGED <<hOwner, reach, snap, todo, cur, rcvd, hrun, emitted, eno, last, count>>

\* line 73: the handler has processed the event and the call returns
Reply(e) ==
    /\ epc[e] = "sent"
    /\ reach[cur[e]]
    /\ hrun' = [hrun EXCEPT ![cur[e]] = @ \ {e}]
    /\ epc' = [epc EXCEPT ![e] = "loop"]
    /\ UNCHANGED <<handlers, hOwner, reach, snap, todo, cur, rcvd, cfail, emitted, eno, last, count>>

\* line 73: the handler raises while it processes the event; the call raises
\* the remote exception, which is not caught and leaves emit_signal
ReplyError(e) ==
    /\ epc[e] = "sent"
    /\ reach[cur[e]]
    /\ hrun' = [hrun EXCEPT ![cur[e]] = @ \ {e}]
    /\ epc' = [epc EXCEPT ![e] = "raised"]
    /\ UNCHANGED <<handlers, hOwner, reach, snap, todo, cur, rcvd, cfail, emitted, eno, last, count>>

FinishEarly(e) ==
    /\ epc[e] = "loop"
    /\ epc' = [epc EXCEPT ![e] = "done"]
    /\ UNCHANGED <<handlers, hOwner, reach, snap, todo, cur, rcvd, cfail, hrun, emitted, eno, last, count>>

\* line 70: the loop is through; emit_signal returns to the event source
Finish(e) ==
    /\ epc[e] = "loop"
    /\ Remaining(e) = {}
    /\ epc' = [epc EXCEPT ![e] = "done"]
    /\ UNCHANGED <<handlers, hOwner, reach, snap, todo, cur, rcvd, cfail, hrun, emitted, eno, last, count>>

NextEmit ==
    \/ \E w \in Workers, h \in Handlers :
        Connect(w, h) /\ UNCHANGED <<extVars, poolVars, reentVars, rrVars>>
    \/ \E h \in Handlers :
        \/ Disconnect(h) /\ UNCHANGED <<extVars, poolVars, reentVars, rrVars>>
        \/ Unreachable(h) /\ UNCHANGED <<extVars, poolVars, reentVars, rrVars>>
    \/ \E e \in Workers :
        \/ StartEmit(e) /\ UNCHANGED <<extVars, poolVars, reentVars, rrVars>>
        \/ Send(e) /\ UNCHANGED <<extVars, poolVars, reentVars, rrVars>>
        \/ SendNotOwner(e) /\ UNCHANGED <<extVars, poolVars, reentVars, rrVars>>
        \/ CommFailure(e) /\ UNCHANGED <<extVars, poolVars, reentVars, rrVars>>
        \/ Reply(e) /\ UNCHANGED <<extVars, poolVars, reentVars, rrVars>>
        \/ ReplyError(e) /\ UNCHANGED <<extVars, poolVars, reentVars, rrVars>>
        \/ Finish(e) /\ UNCHANGED <<extVars, poolVars, reentVars, rrVars>>
    \/ \E e \in Workers, h \in Handlers :
        Claim(e, h) /\ UNCHANGED <<extVars, poolVars, reentVars, rrVars>>

SpecEmit == Init /\ [][NextEmit]_vars

----------------------------------------------------------------------------
(* The pool under any interleaving (Spec) *)

\* C1: a connection is never repurposed between the moment _proxy_attr handed
\* one of its attributes to a thread and the end of that thread's call on it:
\* a thread that holds an attribute of a proxy, or has a call in flight on
\* it, owns that proxy
C1_OwnedWhileInUse ==
    \A t \in Threads : pc[t] \in {"attr", "incall"} => owner[attr[t]] = t

\* C2: while no more threads than the pool has entries have ever called, each
\* thread was served by one and the same proxy on all of its calls, and no
\* proxy has served two threads
C2_OneConnectionPerThread ==
    Cardinality(callers) <= maxsize =>
        /\ \A t \in Threads : Cardinality(served[t]) <= 1
        /\ \A t, u \in Threads : t # u => served[t] \cap served[u] = {}

\* C2: as many threads as the pool has entries have called, each has been
\* served, and one of them is being served again
C2_Witness ==
    /\ Cardinality(callers) = maxsize
    /\ \A t \in callers : served[t] # {}
    /\ \E t \in callers : pc[t] = "attr" /\ Len(cache) = maxsize
                          /\ cache[Len(cache)].thread = t /\ cache[1].thread # t

\* C3: the cache never holds more than maxsize entries, never two entries of
\* one thread, and never one proxy under two threads
C3_BoundedInjectiveCache ==
    /\ Len(cache) <= maxsize
    /\ \A i, j \in 1..Len(cache) :
        i # j => cache[i].thread # cache[j].thread /\ cache[i].proxy # cache[j].proxy

\* C3: every thread has called and the last of them has its entry, in a
\* full cache, at the cost of another thread's
C3_Witness ==
    /\ callers = Threads
    /\ Len(cache) = maxsize
    /\ lock = NoThread
    /\ Cardinality(CacheThreads(cache)) = maxsize
    /\ Cardinality(CacheProxies(cache)) = maxsize

\* C4: a thread without an entry that takes the lock gets, if the cache has
\* room, a proxy that did not exist before; if the cache is full, the proxy of
\* the least recently used entry, which leaves the cache, becomes owned by the
\* thread and keeps its connection, and no proxy is created; the thread then
\* inserts the proxy it got under its own key, as the most recently used entry
C4_MissStep ==
    \A t \in Threads :
        /\ (pc[t] = "wait" /\ pc'[t] = "insert" /\ Len(cache) < maxsize) =>
            /\ proxy'[t] \notin Created
            /\ DOMAIN owner' = Created \cup {proxy'[t]}
            /\ owner'[proxy'[t]] = t
            /\ cache' = cache
        /\ (pc[t] = "wait" /\ pc'[t] = "insert" /\ Len(cache) >= maxsize) =>
            /\ DOMAIN owner' = Created
            /\ proxy'[t] = cache[1].proxy
            /\ cache' = Tail(cache)
            /\ owner'[proxy'[t]] = t
            /\ conn' = conn
        /\ (pc[t] = "insert" /\ pc'[t] = "lookup") =>
            /\ Len(cache') = Len(cache) + 1
            /\ cache'[Len(cache')] = [thread |-> t, proxy |-> proxy[t]]
            /\ \A i \in 1..Len(cache) : cache'[i] = cache[i]

C4_MissCreatesOrRepurposes == [][C4_MissStep]_vars

\* C4: a thread has repurposed the least recently used proxy of a full cache
\* and is about to insert it, and no proxy beyond the first maxsize exists
C4_Witness ==
    \E t \in Threads :
        /\ pc[t] = "insert"
        /\ Len(cache) = maxsize - 1
        /\ Cardinality(Created) = maxsize
        /\ owner[proxy[t]] = t
        /\ proxy[t] \notin CacheProxies(cache)

----------------------------------------------------------------------------
(* The pool with maxsize + 1 threads calling in turns (SpecRR) *)

\* C5: with maxsize + 1 threads calling in turns every call succeeds: the
\* entry is there when the thread looks it up, the thread owns the proxy when
\* it calls, its call is the one the server works on, no exception is raised,
\* and no event reaches a subscriber callback more than once
C5_RoundRobinSucceeds ==
    /\ \A t \in Threads :
        /\ pc[t] = "lookup" => InCache(cache, t)
        /\ pc[t] = "attr" => owner[attr[t]] = t
        /\ pc[t] = "incall" => Serving(t)
        /\ pc[t] \notin {"KeyError", "PyroError"}
    /\ \A s \in 1..Len(deliv) : deliv[s] <= 1

\* C5: every thread has called, so the last one has evicted the entry of the
\* first, and the first is in its next call, on a repurposed proxy, while a
\* subscriber callback has received an event once
C5_Witness ==
    /\ callers = Threads
    /\ pc[1] = "incall"
    /\ Cardinality(Created) = maxsize
    /\ \E u \in Threads : u # 1 /\ InCache(cache, u) /\ ProxyOf(cache, u) = 1
    /\ Len(deliv) > 0
    /\ \A s \in 1..Len(deliv) : deliv[s] = 1

----------------------------------------------------------------------------
(* Event handlers calling back through the pool (SpecReent) *)

\* C6: a handler that runs because of an event of a call in flight can call
\* through the pool and get its result while that call is in flight: the
\* handler's call never waits behind the call that waits for the handler
C6_HandlerCallNotBehindTrigger ==
    \A t \in Threads :
        (running[t] # NoThread /\ pc[t] = "incall") =>
            Head(conn[attr[t]]) # running[t]

----------------------------------------------------------------------------
(* The callback registry (SpecEmit) *)

\* a delivery raises CommunicationError in this step of server thread e
CommFailureStep(e) == epc[e] \in {"claimed", "sent"} /\ cfail'[e] # cfail[e]

\* C7: when the delivery to one handler raises a communication failure, the
\* handler leaves the handler set, so that the snapshot of a later emission
\* does not hold it, no exception leaves emit_signal, and the loop goes on
\* with all the handlers it had left, which are still delivered to
C7_CommFailureStepOk ==
    \A e \in Workers :
        CommFailureStep(e) =>
            /\ handlers' = handlers \ {cur[e]}
            /\ cfail'[e] = cfail[e] \cup {cur[e]}
            /\ epc'[e] = "loop"
            /\ todo'[e] = todo[e]

C7_CommFailureIsolated == [][C7_CommFailureStepOk]_vars

\* C7: an emission has come to its end without an exception although the
\* delivery to one handler raised a communication failure; another handler
\* of its snapshot received the event, and the failing one is out of the set
C7_Witness ==
    \E e \in Workers :
        /\ epc[e] = "done"
        /\ cfail[e] # {}
        /\ rcvd[e] \ cfail[e] # {}
        /\ cfail[e] \cap handlers = {}
        /\ rcvd[e] \cup cfail[e] = snap[e]

\* C8: an error of one delivery that is not a communication failure does not
\* stop the delivery to the remaining handlers of the snapshot: when
\* emit_signal is left, by return or by exception, no handler of the snapshot
\* is left out
C8_OtherErrorsDoNotStopDelivery ==
    \A e \in Workers : epc[e] \in {"done", "raised"} => todo[e] = {}

\* the handlers the loop of server thread e has taken from its snapshot
Taken(e) == snap[e] \ todo[e]

\* C9, in one step: the snapshot of an emission is the handler set of the
\* moment it is taken, and nothing changes it while the emission goes on
C9_SnapshotStep ==
    \A e \in Workers :
        /\ (e \notin Emitting /\ epc'[e] = "loop") => snap'[e] = handlers
        /\ e \in Emitting => snap'[e] = snap[e]

\* C9: an emission delivers to the handlers of its snapshot and to no other,
\* whatever is connected or disconnected meanwhile: who receives the event,
\* or fails to with a communication failure, is among the handlers the loop
\* took from the snapshot, and an emission that returns has taken them all
C9_DeliversToSnapshot ==
    /\ [](\A e \in Workers :
            /\ rcvd[e] \cup cfail[e] \subseteq Taken(e)
            /\ todo[e] \subseteq snap[e]
            /\ epc[e] = "done" => rcvd[e] \cup cfail[e] = snap[e])
    /\ [][C9_SnapshotStep]_vars

\* C9: an emission has delivered to all of its snapshot and still waits for
\* the last handler, while one handler of the snapshot has been disconnected
\* and one that is not in the snapshot has been connected
C9_Witness ==
    \E e \in Workers :
        /\ epc[e] = "sent"
        /\ todo[e] = {}
        /\ rcvd[e] = snap[e]
        /\ snap[e] \ handlers # {}
        /\ handlers \ snap[e] # {}

C11_SlowHandlerDoesNotDelay ==
    \A e \in Workers : epc[e] = "sent" => \A h \in todo[e] : ~reach[h]

\* C12: when the emission of an event raised by a call returns, so that the
\* call can return to the client, every handler of the snapshot has been
\* invoked once and has processed the event, unless its delivery raised a
\* communication failure
C12_DeliveredBeforeReturn ==
    \A e \in Workers :
        epc[e] = "done" =>
            \A h \in snap[e] :
                \/ h \in cfail[e]
                \/ count[e][h] = 1 /\ e \notin hrun[h]

\* C12: an emission to two handlers has returned; both were invoked once and
\* have processed the event
C12_Witness ==
    \E e \in Workers :
        /\ epc[e] = "done"
        /\ snap[e] = Handlers
        /\ cfail[e] = {}
        /\ \A h \in Handlers : count[e][h] = 1 /\ hrun[h] = {}

\* C13, in one step: a handler that receives an event has received no event
\* that the source emitted later
C13_ReceiveStep ==
    \A e \in Workers :
        (epc[e] = "claimed" /\ epc'[e] = "sent") => eno[e] > last[cur[e]]

\* C13: a handler receives the events of one event source in the order in
\* which the source emitted them
C13_InEmissionOrder == [][C13_ReceiveStep]_vars

----------------------------------------------------------------------------
(* Subscriber callbacks and the handlers of the pool's proxies (SpecRR) *)

\* C14, in one step: when a call that raised an event returns, the event has
\* reached every subscriber callback once
C14_ReturnStep ==
    \A t \in Threads :
        (pc[t] = "incall" /\ pc'[t] = "idle") =>
            \A s \in 1..Len(deliv') : deliv'[s] = 1

----------------------------------------------------------------------------
(* A sequence run by RemoteMDARunner (server/_server.py lines 113-119) and *)
(* cancelled by the client. The runner's loop is the one RemoteMDARunner   *)
(* inherits from pymmcore_plus.mda.MDARunner, modelled by what it does:    *)
(* run sets the running flag and clears the cancel flag; before each step  *)
(* it waits for the step's time and leaves the loop if the cancel flag is  *)
(* set; it executes the step and emits frameReady; at the end it clears    *)
(* both flags and emits sequenceFinished; cancel() sets the cancel flag.   *)
(* frameReady is connected to emit_signal (lines 50-58), which delivers    *)
(* the frame event to the client's handler and waits for it (line 73).     *)

Steps == 1..NumSteps

\* mda.run(sequence): the run begins
RunStart ==
    /\ mpc = "idle"
    /\ mrun' = TRUE
    /\ mcancel' = FALSE
    /\ mstep' = 1
    /\ mpc' = "wait"
    /\ UNCHANGED <<executed, frames, hstep, cancelAt, hcancelAt, obs>>

\* the runner finds the cancel flag set before the step at hand: no further step
WaitCancelled ==
    /\ mpc = "wait"
    /\ mcancel
    /\ mcancel' = FALSE
    /\ mpc' = "finish"
    /\ UNCHANGED <<mrun, mstep, executed, frames, hstep, cancelAt, hcancelAt, obs>>

\* the time of the step at hand has come and the cancel flag is not set:
\* the step is executed
Exec ==
    /\ mpc = "wait"
    /\ ~mcancel
    /\ executed' = mstep
    /\ mpc' = "emit"
    /\ UNCHANGED <<mrun, mcancel, mstep, frames, hstep, cancelAt, hcancelAt, obs>>

\* where the runner goes on after the frame event of the step at hand
AfterFrame == IF mstep = NumSteps THEN "finish" ELSE "wait"

StepAfterFrame == IF mstep = NumSteps THEN mstep ELSE mstep + 1

FrameSendOneway ==
    /\ mpc = "emit"
    /\ frames' = mstep
    /\ hstep' = mstep
    /\ mpc' = AfterFrame
    /\ mstep' = StepAfterFrame
    /\ UNCHANGED <<mrun, mcancel, executed, cancelAt, hcancelAt, obs>>

\* emit_signal, line 73: the frame event of the step goes to the client's
\* handler, and the runner's thread waits for the handler
FrameSend ==
    /\ mpc = "emit"
    /\ frames' = mstep
    /\ hstep' = mstep
    /\ mpc' = "inhandler"
    /\ UNCHANGED <<mrun, mcancel, mstep, executed, cancelAt, hcancelAt, obs>>

\* the client's frame handler calls mda.cancel() (tests/test_client.py line 84)
HandlerCancel ==
    /\ hstep # 0
    /\ mcancel' = TRUE
    /\ cancelAt' = IF cancelAt = 0 /\ mrun THEN mstep ELSE cancelAt
    /\ hcancelAt' = IF hcancelAt = 0 THEN hstep ELSE hcancelAt
    /\ UNCHANGED <<mpc, mrun, mstep, executed, frames, hstep, obs>>

\* the client's frame handler returns; the runner, if it waits for it, goes
\* on to the next step, or to the end after the last
FrameReply ==
    /\ hstep # 0
    /\ hstep' = 0
    /\ mpc' = IF mpc = "inhandler" THEN AfterFrame ELSE mpc
    /\ mstep' = IF mpc = "inhandler" THEN StepAfterFrame ELSE mstep
    /\ UNCHANGED <<mrun, mcancel, executed, frames, cancelAt, hcancelAt, obs>>

\* another thread of the client calls mda.cancel() (tests/test_client.py line 66)
ClientCancel ==
    /\ mcancel' = TRUE
    /\ cancelAt' = IF cancelAt = 0 /\ mrun THEN mstep ELSE cancelAt
    /\ UNCHANGED <<mpc, mrun, mstep, executed, frames, hstep, hcancelAt, obs>>

\* a thread of the client calls mda.is_running() (tests/test_client.py lines 65-69)
IsRunning ==
    /\ obs' = IF mrun THEN "true" ELSE "false"
    /\ UNCHANGED <<mpc, mrun, mcancel, mstep, executed, frames, hstep, cancelAt, hcancelAt>>

\* the run ends: the flags are cleared, sequenceFinished is emitted
RunFinish ==
    /\ mpc = "finish"
    /\ mrun' = FALSE
    /\ mcancel' = FALSE
    /\ mpc' = "done"
    /\ UNCHANGED <<mstep, executed, frames, hstep, cancelAt, hcancelAt, obs>>

NextMDA ==
    \/ RunStart /\ UNCHANGED <<poolVars, reentVars, rrVars, emitVars, procVars, instVars, shmVars, serVars, srvVars, lsnVars>>
    \/ WaitCancelled /\ UNCHANGED <<poolVars, reentVars, rrVars, emitVars, procVars, instVars, shmVars, serVars, srvVars, lsnVars>>
    \/ Exec /\ UNCHANGED <<poolVars, reentVars, rrVars, emitVars, procVars, instVars, shmVars, serVars, srvVars, lsnVars>>
    \/ FrameSend /\ UNCHANGED <<poolVars, reentVars, rrVars, emitVars, procVars, instVars, shmVars, serVars, srvVars, lsnVars>>
    \/ HandlerCancel /\ UNCHANGED <<poolVars, reentVars, rrVars, emitVars, procVars, instVars, shmVars, serVars, srvVars, lsnVars>>
    \/ FrameReply /\ UNCHANGED <<poolVars, reentVars, rrVars, emitVars, procVars, instVars, shmVars, serVars, srvVars, lsnVars>>
    \/ ClientCancel /\ UNCHANGED <<poolVars, reentVars, rrVars, emitVars, procVars, instVars, shmVars, serVars, srvVars, lsnVars>>
    \/ IsRunning /\ UNCHANGED <<poolVars, reentVars, rrVars, emitVars, procVars, instVars, shmVars, serVars, srvVars, lsnVars>>
    \/ RunFinish /\ UNCHANGED <<poolVars, reentVars, rrVars, emitVars, procVars, instVars, shmVars, serVars, srvVars, lsnVars>>

SpecMDA == Init /\ [][NextMDA]_vars

\* C15: once cancel has been issued on a running sequence, no step after the
\* one at hand is executed and no frame event of a later step is delivered,
\* and the run ends with running false; when cancel was called from inside
\* the frame handler of step k, the last frame event delivered is that of
\* step k
C15_CancelStopsRun ==
    /\ cancelAt # 0 => executed <= cancelAt /\ frames <= cancelAt
    /\ hcancelAt # 0 => frames = hcancelAt /\ executed = hcancelAt
    /\ mpc = "done" => ~mrun

\* C15: a run of NumSteps steps has ended with running false after cancel
\* was called from inside the frame handler of its second step, whose frame
\* event is the last delivered, and is_running() has returned false
C15_Witness ==
    /\ mpc = "done"
    /\ ~mrun
    /\ hcancelAt = 2
    /\ frames = 2
    /\ executed = 2
    /\ obs = "false"

----------------------------------------------------------------------------
(* server_process (server/_server.py lines 165-210), a generator turned    *)
(* into a context manager by contextlib.contextmanager. Entering the with  *)
(* statement runs the generator to its yield; leaving it resumes the       *)
(* generator after the yield, or, when the body raised, throws the body's  *)
(* exception into the generator at the yield; a generator that yields      *)
(* again after that makes the with statement raise RuntimeError.           *)
(* The budget counts tenths of a second; the rounding of the float         *)
(* subtraction in line 202 is left out.                                    *)

\* remote_daemon.ping() succeeds: somebody serves at host:port
Serves == ext \/ child = "serving"

\* the with statement is entered: server_process(host, port, timeout)
Enter(a, b) ==
    /\ ppc = "call"
    /\ addr' = a
    /\ budget' = b
    /\ ppc' = "probe"
    /\ UNCHANGED <<ext, child, childAddr, nspawn, yielded, thrown, entryOk, outcome>>

\* lines 178-182: the probe at entry succeeds; yield None
EntryProbeOk ==
    /\ ppc = "probe"
    /\ Serves
    /\ entryOk' = TRUE
    /\ yielded' = "None"
    /\ ppc' = "bodyNone"
    /\ UNCHANGED <<addr, budget, ext, child, childAddr, nspawn, thrown, outcome>>

\* lines 178-179: the probe at entry raises CommunicationError, which the
\* suppress block swallows; control goes on after the block
EntryProbeFail ==
    /\ ppc = "probe"
    /\ ~Serves
    /\ ppc' = "spawn"
    /\ UNCHANGED <<addr, budget, ext, child, childAddr, nspawn, yielded, thrown, entryOk, outcome>>

\* the body ends normally after yield None: line 183, return
BodyNoneReturn ==
    /\ ppc = "bodyNone"
    /\ outcome' = "normal"
    /\ ppc' = "left"
    /\ UNCHANGED <<addr, budget, ext, child, childAddr, nspawn, yielded, thrown, entryOk>>

\* the body raises a CommunicationError after yield None: it is thrown into
\* the generator at line 182, inside the suppress block of line 178, which
\* swallows it; control goes on after the block
BodyNoneCommError ==
    /\ ppc = "bodyNone"
    /\ thrown' = TRUE
    /\ ppc' = "spawn"
    /\ UNCHANGED <<addr, budget, ext, child, childAddr, nspawn, yielded, entryOk, outcome>>

\* the body raises another exception after yield None: it leaves the
\* generator and the with statement
BodyNoneOtherError ==
    /\ ppc = "bodyNone"
    /\ outcome' = "error"
    /\ ppc' = "left"
    /\ UNCHANGED <<addr, budget, ext, child, childAddr, nspawn, yielded, thrown, entryOk>>

\* lines 189-193: "--host", host, "--port", str(port)
ChildArgs(a) == a

\* lines 185-195: subprocess.Popen
Spawn ==
    /\ ppc = "spawn"
    /\ child' = "starting"
    /\ childAddr' = ChildArgs(addr)
    /\ nspawn' = nspawn + 1
    /\ ppc' = "poll"
    /\ UNCHANGED <<addr, budget, ext, yielded, thrown, entryOk, outcome>>

BudgetLeftOffByOne(b) == b >= 0

\* line 197: while timeout > 0
BudgetLeft(b) == b > 0

\* lines 197-200 and 207: a probe succeeds, break, yield proc; if this is
\* after the body's exception was thrown in, the second yield makes the with
\* statement raise RuntimeError
PollOk ==
    /\ ppc = "poll"
    /\ BudgetLeft(budget)
    /\ Serves
    /\ IF thrown
       THEN /\ outcome' = "RuntimeError"
            /\ ppc' = "left"
            /\ UNCHANGED yielded
       ELSE /\ yielded' = "proc"
            /\ ppc' = "bodyProc"
            /\ UNCHANGED outcome
    /\ UNCHANGED <<addr, budget, ext, child, childAddr, nspawn, thrown, entryOk>>

\* lines 197-203: a probe fails; timeout -= 0.1, sleep
PollFail ==
    /\ ppc = "poll"
    /\ BudgetLeft(budget)
    /\ ~Serves
    /\ budget' = budget - 1
    /\ UNCHANGED <<ppc, addr, ext, child, childAddr, nspawn, yielded, thrown, entryOk, outcome>>

\* lines 204-205: the loop ends without break; raise TimeoutError
PollTimeout ==
    /\ ppc = "poll"
    /\ ~BudgetLeft(budget)
    /\ outcome' = "TimeoutError"
    /\ ppc' = "left"
    /\ UNCHANGED <<addr, budget, ext, child, childAddr, nspawn, yielded, thrown, entryOk>>

\* the body ends normally after yield proc: lines 208-210, kill and wait
BodyProcReturn ==
    /\ ppc = "bodyProc"
    /\ child' = "waited"
    /\ outcome' = "normal"
    /\ ppc' = "left"
    /\ UNCHANGED <<addr, budget, ext, childAddr, nspawn, yielded, thrown, entryOk>>

\* the body raises after yield proc: the exception is thrown into the
\* generator at line 207, outside any try, and leaves it
BodyProcError ==
    /\ ppc = "bodyProc"
    /\ outcome' = "error"
    /\ ppc' = "left"
    /\ UNCHANGED <<addr, budget, ext, child, childAddr, nspawn, yielded, thrown, entryOk>>

\* the child's server comes up, if the port is free
ChildUp ==
    /\ child = "starting"
    /\ ~ext
    /\ child' = "serving"
    /\ UNCHANGED <<ppc, addr, budget, ext, childAddr, nspawn, yielded, thrown, entryOk, outcome>>

\* the child ends by itself: the port is taken, or it crashes
ChildExit ==
    /\ child \in {"starting", "serving"}
    /\ child' = "exited"
    /\ UNCHANGED <<ppc, addr, budget, ext, childAddr, nspawn, yielded, thrown, entryOk, outcome>>

\* somebody else starts a server at host:port, or that server goes away
ExtUp ==
    /\ ~Serves
    /\ ext' = TRUE
    /\ UNCHANGED <<ppc, addr, budget, child, childAddr, nspawn, yielded, thrown, entryOk, outcome>>

ExtDown ==
    /\ ext
    /\ ext' = FALSE
    /\ UNCHANGED <<ppc, addr, budget, child, childAddr, nspawn, yielded, thrown, entryOk, outcome>>

NextProc ==
    \/ \E a \in Addrs, b \in 0..MaxTimeout :
        Enter(a, b) /\ UNCHANGED <<poolVars, reentVars, rrVars, emitVars, mdaVars, instVars, shmVars, serVars, srvVars, lsnVars>>
    \/ EntryProbeOk /\ UNCHANGED <<poolVars, reentVars, rrVars, emitVars, mdaVars, instVars, shmVars, serVars, srvVars, lsnVars>>
    \/ EntryProbeFail /\ UNCHANGED <<poolVars, reentVars, rrVars, emitVars, mdaVars, instVars, shmVars, serVars, srvVars, lsnVars>>
    \/ BodyNoneReturn /\ UNCHANGED <<poolVars, reentVars, rrVars, emitVars, mdaVars, instVars, shmVars, serVars, srvVars, lsnVars>>
    \/ BodyNoneCommError /\ UNCHANGED <<poolVars, reentVars, rrVars, emitVars, mdaVars, instVars, shmVars, serVars, srvVars, lsnVars>>
    \/ BodyNoneOtherError /\ UNCHANGED <<poolVars, reentVars, rrVars, emitVars, mdaVars, instVars, shmVars, serVars, srvVars, lsnVars>>
    \/ Spawn /\ UNCHANGED <<poolVars, reentVars, rrVars, emitVars, mdaVars, instVars, shmVars, serVars, srvVars, lsnVars>>
    \/ PollOk /\ UNCHANGED <<poolVars, reentVars, rrVars, emitVars, mdaVars, instVars, shmVars, serVars, srvVars, lsnVars>>
    \/ PollFail /\ UNCHANGED <<poolVars, reentVars, rrVars, emitVars, mdaVars, instVars, shmVars, serVars, srvVars, lsnVars>>
    \/ PollTimeout /\ UNCHANGED <<poolVars, reentVars, rrVars, emitVars, mdaVars, instVars, shmVars, serVars, srvVars, lsnVars>>
    \/ BodyProcReturn /\ UNCHANGED <<poolVars, reentVars, rrVars, emitVars, mdaVars, instVars, shmVars, serVars, srvVars, lsnVars>>
    \/ BodyProcError /\ UNCHANGED <<poolVars, reentVars, rrVars, emitVars, mdaVars, instVars, shmVars, serVars, srvVars, lsnVars>>
    \/ ChildUp /\ UNCHANGED <<poolVars, reentVars, rrVars, emitVars, mdaVars, instVars, shmVars, serVars, srvVars, lsnVars>>
    \/ ChildExit /\ UNCHANGED <<poolVars, reentVars, rrVars, emitVars, mdaVars, instVars, shmVars, serVars, srvVars, lsnVars>>
    \/ ExtUp /\ UNCHANGED <<poolVars, reentVars, rrVars, emitVars, mdaVars, instVars, shmVars, serVars, srvVars, lsnVars>>
    \/ ExtDown /\ UNCHANGED <<poolVars, reentVars, rrVars, emitVars, mdaVars, instVars, shmVars, serVars, srvVars, lsnVars>>

SpecProc == Init /\ [][NextProc]_vars

\* C16: when the probe at entry succeeds, server_process yields None, spawns
\* no child and terminates no process, however the body ends
C16_NoSpawnWhenServing ==
    entryOk => nspawn = 0 /\ child = "none" /\ yielded = "None"

\* C17: whenever server_process has spawned a child, the child has been
\* terminated and waited for by the time control leaves server_process, on
\* every exit path
C17_ChildReaped ==
    (ppc = "left" /\ nspawn > 0) => child = "waited"

\* C18, in one step, when nobody served at entry: the child is spawned once,
\* with the given host and port; a probe is made only while budget is left;
\* a probe that succeeds yields the child at once, a probe that fails uses
\* up budget; TimeoutError is raised only when the budget is used up
C18_Step ==
    ~entryOk =>
        /\ (ppc = "probe" /\ ppc' = "spawn") => ~Serves
        /\ (ppc = "spawn" /\ ppc' # "spawn") =>
            /\ ppc' = "poll"
            /\ nspawn = 0 /\ nspawn' = 1
            /\ child' = "starting"
            /\ childAddr' = addr
        /\ (ppc = "poll" /\ ppc' = "bodyProc") =>
            Serves /\ budget > 0 /\ yielded' = "proc"
        /\ (ppc = "poll" /\ budget' # budget) =>
            ~Serves /\ budget > 0 /\ budget' < budget /\ ppc' = "poll"
        /\ (ppc = "poll" /\ ppc' = "left") =>
            budget <= 0 /\ outcome' = "TimeoutError" /\ yielded' = "nothing"

\* C18: when nobody serves at entry, server_process spawns a child with the
\* given host and port and polls; it yields the child as soon as a probe
\* succeeds and raises TimeoutError, without having yielded, when the budget
\* is used up without one
C18_SpawnPollYieldOrTimeout ==
    /\ [](~entryOk =>
            /\ outcome = "TimeoutError" => yielded = "nothing" /\ budget <= 0 /\ nspawn = 1
            /\ yielded = "proc" => nspawn = 1 /\ childAddr = addr
            /\ yielded # "None")
    /\ [][C18_Step]_vars

\* C18: the child was spawned with the given host and port, a probe failed,
\* a later one succeeded, and the body runs with the child
C18_Witness ==
    /\ ~entryOk
    /\ ppc = "bodyProc"
    /\ yielded = "proc"
    /\ child = "serving"
    /\ childAddr = addr
    /\ addr = NumAddrs
    /\ budget > 0
    /\ budget < MaxTimeout

-----------------------------------------------------------------------------
(* ProxyHandler.instance, the constructor of ClientCMMCorePlus, and from_dict
   of the values that carry a core_uri *)

\* key = str(uri): "None" for None, the address for a string or a URI object
Key(u) == IF u.kind = "none" THEN NoneKey ELSE u.a

\* the uri the constructor of ClientCMMCorePlus ends up with
UriOf(u) == IF u.kind = "none" THEN DEFAULT_URI ELSE u.a

\* whether the program holds a pool for address a
HoldsFor(a) == \E p \in held : pools[p] = a

\* the program calls ClientCMMCorePlus.instance(u)
CallInstance(t, u) ==
    /\ ipc[t] = "idle"
    /\ ipc' = [ipc EXCEPT ![t] = "check"]
    /\ iop' = [iop EXCEPT ![t] = "instance"]
    /\ iuri' = [iuri EXCEPT ![t] = u]
    /\ ikey' = [ikey EXCEPT ![t] = Key(u)]
    /\ ihad' = [ihad EXCEPT ![t] = HoldsFor(UriOf(u))]
    /\ UNCHANGED <<instances, pools, conns, ifields, imine, ifound, ires, ierr, ival,
                   held, broken, direct, first, created>>

\* from_dict of a value with the identifying fields l whose envelope names the
\* core at address a: it pops core_uri and calls ClientCMMCorePlus.instance
CallDecode(t, l, a) ==
    /\ ipc[t] = "idle"
    /\ ipc' = [ipc EXCEPT ![t] = "check"]
    /\ iop' = [iop EXCEPT ![t] = "decode"]
    /\ iuri' = [iuri EXCEPT ![t] = [kind |-> "uri", a |-> a]]
    /\ ikey' = [ikey EXCEPT ![t] = Key([kind |-> "uri", a |-> a])]
    /\ ifields' = [ifields EXCEPT ![t] = l]
    /\ ihad' = [ihad EXCEPT ![t] = HoldsFor(a)]
    /\ UNCHANGED <<instances, pools, conns, imine, ifound, ires, ierr, ival,
                   held, broken, direct, first, created>>

\* the program calls the constructor ClientCMMCorePlus(u) itself
CallDirect(t, u) ==
    /\ ipc[t] = "idle"
    /\ ipc' = [ipc EXCEPT ![t] = "init"]
    /\ iop' = [iop EXCEPT ![t] = "direct"]
    /\ iuri' = [iuri EXCEPT ![t] = u]
    /\ ihad' = [ihad EXCEPT ![t] = HoldsFor(UriOf(u))]
    /\ UNCHANGED <<instances, pools, conns, ikey, ifields, imine, ifound, ires, ierr, ival,
                   held, broken, direct, first, created>>

\* instance: key is registered
InstHit(t) ==
    /\ ipc[t] = "check"
    /\ instances[ikey[t]] # NoPool
    /\ ifound' = [ifound EXCEPT ![t] = TRUE]
    /\ ipc' = [ipc EXCEPT ![t] = "return"]
    /\ UNCHANGED <<instances, pools, conns, iop, iuri, ikey, ifields, imine, ires, ierr, ival,
                   held, broken, direct, first, created, ihad>>

\* instance: key is not registered, cls(uri) is called
InstMiss(t) ==
    /\ ipc[t] = "check"
    /\ instances[ikey[t]] = NoPool
    /\ ifound' = [ifound EXCEPT ![t] = FALSE]
    /\ ipc' = [ipc EXCEPT ![t] = "init"]
    /\ UNCHANGED <<instances, pools, conns, iop, iuri, ikey, ifields, imine, ires, ierr, ival,
                   held, broken, direct, first, created, ihad>>

\* the constructor up to ProxyHandler.__init__: the uri is resolved, the new
\* pool gets its cache and lock and registers itself under str(self._uri)
InitStore(t) ==
    /\ ipc[t] = "init"
    /\ Len(pools) < MaxPools
    /\ LET p == Len(pools) + 1
           a == UriOf(iuri[t])
       IN  /\ pools' = Append(pools, a)
           /\ instances' = [instances EXCEPT ![a] = p]
           /\ imine' = [imine EXCEPT ![t] = p]
           /\ created' = IF iop[t] = "direct" THEN created
                         ELSE [created EXCEPT ![a] = @ + 1]
    /\ direct' = (direct \/ iop[t] = "direct")
    /\ ipc' = [ipc EXCEPT ![t] = "connect"]
    /\ UNCHANGED <<conns, iop, iuri, ikey, ifields, ifound, ires, ierr, ival,
                   held, broken, first, ihad>>

\* the rest of the constructor: get_mda_runner_uri() makes the thread's
\* connection, which registers its handler with the server; the runner pool
\* is constructed and registers itself under the runner's uri
InitConnect(t) ==
    /\ ipc[t] = "connect"
    /\ conns' = conns \cup {imine[t]}
    /\ instances' = [instances EXCEPT ![RunnerKey(pools[imine[t]])] = imine[t]]
    /\ IF iop[t] = "direct"
       THEN /\ ires' = [ires EXCEPT ![t] = imine[t]]
            /\ held' = held \cup {imine[t]}
            /\ UNCHANGED ierr
            /\ ipc' = [ipc EXCEPT ![t] = "done"]
       ELSE /\ ipc' = [ipc EXCEPT ![t] = "store"]
            /\ UNCHANGED <<ires, ierr, held>>
    /\ UNCHANGED <<pools, iop, iuri, ikey, ifields, imine, ifound, ival,
                   broken, direct, first, created, ihad>>

\* the rest of the constructor when the daemon is not reachable: the
\* connection raises ConnectionRefusedError, which leaves the constructor and
\* instance()
InitConnectFail(t) ==
    /\ ipc[t] = "connect"
    /\ broken' = broken \cup {imine[t]}
    /\ ires' = [ires EXCEPT ![t] = NoPool]
    /\ ierr' = [ierr EXCEPT ![t] = "ConnectionRefusedError"]
    /\ ipc' = [ipc EXCEPT ![t] = "done"]
    /\ UNCHANGED <<instances, pools, conns, iop, iuri, ikey, ifields, imine, ifound, ival,
                   held, direct, first, created, ihad>>

\* instance: cls._instances[key] = the new pool
InstStore(t) ==
    /\ ipc[t] = "store"
    /\ instances' = [instances EXCEPT ![ikey[t]] = imine[t]]
    /\ ipc' = [ipc EXCEPT ![t] = "return"]
    /\ UNCHANGED <<pools, conns, iop, iuri, ikey, ifields, imine, ifound, ires, ierr, ival,
                   held, broken, direct, first, created, ihad>>

\* instance: return cls._instances[key]; from_dict builds the value bound to it
InstReturn(t) ==
    /\ ipc[t] = "return"
    /\ LET r == instances[ikey[t]]
           a == UriOf(iuri[t])
       IN  /\ ires' = [ires EXCEPT ![t] = r]
           /\ UNCHANGED ierr
           /\ IF iop[t] = "decode"
              THEN /\ ival' = [ival EXCEPT ![t] = [label |-> ifields[t], core |-> r]]
                   /\ UNCHANGED <<held, first>>
              ELSE /\ held' = held \cup {r}
                   /\ first' = IF first[a] = NoPool THEN [first EXCEPT ![a] = r] ELSE first
                   /\ UNCHANGED ival
    /\ ipc' = [ipc EXCEPT ![t] = "done"]
    /\ UNCHANGED <<instances, pools, conns, iop, iuri, ikey, ifields, imine, ifound,
                   broken, direct, created, ihad>>

\* the thread goes on to something else
InstDone(t) ==
    /\ ipc[t] = "done"
    /\ ipc' = [ipc EXCEPT ![t] = "idle"]
    /\ iop' = [iop EXCEPT ![t] = "none"]
    /\ iuri' = [iuri EXCEPT ![t] = [kind |-> "none", a |-> NoAddr]]
    /\ ikey' = [ikey EXCEPT ![t] = NoneKey]
    /\ ifields' = [ifields EXCEPT ![t] = NoLabel]
    /\ imine' = [imine EXCEPT ![t] = NoPool]
    /\ ifound' = [ifound EXCEPT ![t] = FALSE]
    /\ ires' = [ires EXCEPT ![t] = NoPool]
    /\ ierr' = [ierr EXCEPT ![t] = "none"]
    /\ ival' = [ival EXCEPT ![t] = NoValue]
    /\ ihad' = [ihad EXCEPT ![t] = FALSE]
    /\ UNCHANGED <<instances, pools, conns, held, broken, direct, first, created>>

NextInst ==
    \/ \E t \in IThreads, u \in UriArgs :
        CallInstance(t, u) /\ UNCHANGED <<poolVars, reentVars, rrVars, emitVars, mdaVars, procVars, shmVars, serVars, srvVars, lsnVars>>
    \/ \E t \in IThreads, l \in Labels, a \in Addrs :
        CallDecode(t, l, a) /\ UNCHANGED <<poolVars, reentVars, rrVars, emitVars, mdaVars, procVars, shmVars, serVars, srvVars, lsnVars>>
    \/ \E t \in IThreads, u \in UriArgs :
        CallDirect(t, u) /\ UNCHANGED <<poolVars, reentVars, rrVars, emitVars, mdaVars, procVars, shmVars, serVars, srvVars, lsnVars>>
    \/ \E t \in IThreads :
        InstHit(t) /\ UNCHANGED <<poolVars, reentVars, rrVars, emitVars, mdaVars, procVars, shmVars, serVars, srvVars, lsnVars>>
    \/ \E t \in IThreads :
        InstMiss(t) /\ UNCHANGED <<poolVars, reentVars, rrVars, emitVars, mdaVars, procVars, shmVars, serVars, srvVars, lsnVars>>
    \/ \E t \in IThreads :
        InitStore(t) /\ UNCHANGED <<poolVars, reentVars, rrVars, emitVars, mdaVars, procVars, shmVars, serVars, srvVars, lsnVars>>
    \/ \E t \in IThreads :
        InitConnect(t) /\ UNCHANGED <<poolVars, reentVars, rrVars, emitVars, mdaVars, procVars, shmVars, serVars, srvVars, lsnVars>>
    \/ \E t \in IThreads :
        InitConnectFail(t) /\ UNCHANGED <<poolVars, reentVars, rrVars, emitVars, mdaVars, procVars, shmVars, serVars, srvVars, lsnVars>>
    \/ \E t \in IThreads :
        InstStore(t) /\ UNCHANGED <<poolVars, reentVars, rrVars, emitVars, mdaVars, procVars, shmVars, serVars, srvVars, lsnVars>>
    \/ \E t \in IThreads :
        InstReturn(t) /\ UNCHANGED <<poolVars, reentVars, rrVars, emitVars, mdaVars, procVars, shmVars, serVars, srvVars, lsnVars>>
    \/ \E t \in IThreads :
        InstDone(t) /\ UNCHANGED <<poolVars, reentVars, rrVars, emitVars, mdaVars, procVars, shmVars, serVars, srvVars, lsnVars>>

SpecInst == Init /\ [][NextInst]_vars

\* C19: as long as the program asks for pools through instance() and
\* decoding only and no construction fails, instance() constructs at most
\* one pool for an address, and every instance() for the address returns the
\* pool that the first one returned
C19_OnePoolPerAddress ==
    (~direct /\ broken = {}) =>
        /\ \A a \in Addrs : created[a] <= 1
        /\ \A t \in IThreads :
            (ipc[t] = "done" /\ iop[t] = "instance") =>
                ires[t] = first[UriOf(iuri[t])]

\* whether pool p was constructed by a call of the program that has not
\* returned yet
UnderConstruction(p) ==
    \E t \in IThreads : imine[t] = p /\ ipc[t] \in {"connect", "store", "return"}

\* C20: when the program held a pool for the envelope's core address before
\* the decoding, the decoded value has the envelope's identifying fields and
\* its core is a pool for that address that the program holds (or that a
\* call of the program is just constructing)
C20_DecodedCoreIsHeldPool ==
    \A t \in IThreads :
        (ipc[t] = "done" /\ iop[t] = "decode" /\ ihad[t]) =>
            /\ ival[t].label = ifields[t]
            /\ pools[ival[t].core] = UriOf(iuri[t])
            /\ ival[t].core \in held \/ UnderConstruction(ival[t].core)

\* C21: a call that asks for a pool (the constructor, instance(), or the
\* decoding of a value) either raises the connection error and returns
\* nothing, or returns a pool whose construction did not fail
C21_FailsOrReturnsUsablePool ==
    \A t \in IThreads :
        ipc[t] = "done" =>
            IF ierr[t] # "none"
            THEN /\ ierr[t] = "ConnectionRefusedError"
                 /\ ires[t] = NoPool
                 /\ ival[t] = NoValue
            ELSE /\ ires[t] # NoPool
                 /\ ires[t] \notin broken

-----------------------------------------------------------------------------
(* SerNDArray: an array is sent as the name of a shared memory segment *)

\* whether a segment of this name exists
Exists(name) == \E g \in segs : g.name = name

\* shm_unlink
Unlink(name) == {g \in segs : g.name # name}

\* a deque that keeps the maxlen newest: a mutation that keeps one more
AppendKeepsOneMore(q, x) ==
    IF Len(q) < maxlen + 1 THEN Append(q, x) ELSE Append(Tail(q), x)

\* deque(maxlen=15).append: the oldest entry is discarded when the deque is full
DequeAppend(q, x) ==
    IF Len(q) < maxlen THEN Append(q, x) ELSE Append(Tail(q), x)

\* to_dict of an empty array: SharedMemory(create=True, size=0) raises ValueError
ToDictEmpty ==
    /\ spc = "run"
    /\ encFailed' = TRUE
    /\ UNCHANGED <<nsent, SHM_SENT, segs, flight, ropen, rerr, decoded, ndrop, spc, todoC>>

\* to_dict of an array of n bytes: a segment of that size is created,
\* tracked, and filled; the envelope carries its name
ToDict(n) ==
    /\ spc = "run"
    /\ n > 0
    /\ nsent < MaxSends
    /\ Cardinality(flight) < MaxInFlight
    /\ nsent' = nsent + 1
    /\ segs' = segs \cup {[name |-> nsent + 1, size |-> n]}
    /\ SHM_SENT' = DequeAppend(SHM_SENT, nsent + 1)
    /\ flight' = flight \cup {[shm |-> nsent + 1, nbytes |-> n]}
    /\ UNCHANGED <<ropen, rerr, decoded, ndrop, encFailed, spc, todoC>>

\* the envelope never reaches a decoder (the connection was lost)
Drop(e) ==
    /\ e \in flight
    /\ ndrop < MaxDrops
    /\ flight' = flight \ {e}
    /\ ndrop' = ndrop + 1
    /\ UNCHANGED <<nsent, SHM_SENT, segs, ropen, rerr, decoded, encFailed, spc, todoC>>

\* from_dict, lines 293-297: the segment is opened by name, its data copied,
\* the mapping closed
FromDictOpen(e) ==
    /\ e \in flight
    /\ ropen = NoEnv
    /\ Exists(e.shm)
    /\ flight' = flight \ {e}
    /\ ropen' = e
    /\ decoded' = decoded \cup {e.shm}
    /\ UNCHANGED <<nsent, SHM_SENT, segs, rerr, ndrop, encFailed, spc, todoC>>

\* from_dict, line 293, when no segment of that name exists: FileNotFoundError
FromDictOpenMissing(e) ==
    /\ e \in flight
    /\ ropen = NoEnv
    /\ ~Exists(e.shm)
    /\ flight' = flight \ {e}
    /\ rerr' = "open"
    /\ UNCHANGED <<nsent, SHM_SENT, segs, ropen, decoded, ndrop, encFailed, spc, todoC>>

\* from_dict, line 298: shm.unlink()
FromDictUnlink ==
    /\ ropen # NoEnv
    /\ Exists(ropen.shm)
    /\ segs' = Unlink(ropen.shm)
    /\ ropen' = NoEnv
    /\ UNCHANGED <<nsent, SHM_SENT, flight, rerr, decoded, ndrop, encFailed, spc, todoC>>

\* from_dict, line 298, when the segment was unlinked meanwhile: FileNotFoundError
FromDictUnlinkMissing ==
    /\ ropen # NoEnv
    /\ ~Exists(ropen.shm)
    /\ rerr' = "unlink"
    /\ ropen' = NoEnv
    /\ UNCHANGED <<nsent, SHM_SENT, segs, flight, decoded, ndrop, encFailed, spc, todoC>>

\* the sender's interpreter exits and runs _cleanup
Exit ==
    /\ spc = "run"
    /\ spc' = "cleanup"
    /\ todoC' = SHM_SENT
    /\ UNCHANGED <<nsent, SHM_SENT, segs, flight, ropen, rerr, decoded, ndrop, encFailed>>

\* _cleanup, lines 303-306, for one tracked segment: close, and unlink with
\* FileNotFoundError suppressed
CleanupOne ==
    /\ spc = "cleanup"
    /\ todoC # <<>>
    /\ segs' = Unlink(Head(todoC))
    /\ todoC' = Tail(todoC)
    /\ UNCHANGED <<nsent, SHM_SENT, flight, ropen, rerr, decoded, ndrop, encFailed, spc>>

\* _cleanup is through
CleanupDone ==
    /\ spc = "cleanup"
    /\ todoC = <<>>
    /\ spc' = "exited"
    /\ UNCHANGED <<nsent, SHM_SENT, segs, flight, ropen, rerr, decoded, ndrop, encFailed, todoC>>

NextShm ==
    \/ ToDictEmpty /\ UNCHANGED <<poolVars, reentVars, rrVars, emitVars, mdaVars, procVars, instVars, serVars, srvVars, lsnVars>>
    \/ \E n \in 0..MaxBytes :
        ToDict(n) /\ UNCHANGED <<poolVars, reentVars, rrVars, emitVars, mdaVars, procVars, instVars, serVars, srvVars, lsnVars>>
    \/ \E e \in flight :
        Drop(e) /\ UNCHANGED <<poolVars, reentVars, rrVars, emitVars, mdaVars, procVars, instVars, serVars, srvVars, lsnVars>>
    \/ \E e \in flight :
        FromDictOpen(e) /\ UNCHANGED <<poolVars, reentVars, rrVars, emitVars, mdaVars, procVars, instVars, serVars, srvVars, lsnVars>>
    \/ \E e \in flight :
        FromDictOpenMissing(e) /\ UNCHANGED <<poolVars, reentVars, rrVars, emitVars, mdaVars, procVars, instVars, serVars, srvVars, lsnVars>>
    \/ FromDictUnlink /\ UNCHANGED <<poolVars, reentVars, rrVars, emitVars, mdaVars, procVars, instVars, serVars, srvVars, lsnVars>>
    \/ FromDictUnlinkMissing /\ UNCHANGED <<poolVars, reentVars, rrVars, emitVars, mdaVars, procVars, instVars, serVars, srvVars, lsnVars>>
    \/ Exit /\ UNCHANGED <<poolVars, reentVars, rrVars, emitVars, mdaVars, procVars, instVars, serVars, srvVars, lsnVars>>
    \/ CleanupOne /\ UNCHANGED <<poolVars, reentVars, rrVars, emitVars, mdaVars, procVars, instVars, serVars, srvVars, lsnVars>>
    \/ CleanupDone /\ UNCHANGED <<poolVars, reentVars, rrVars, emitVars, mdaVars, procVars, instVars, serVars, srvVars, lsnVars>>

SpecShm == Init /\ [][NextShm]_vars

\* the names that SHM_SENT tracks
Tracked == {SHM_SENT[k] : k \in 1..Len(SHM_SENT)}

\* C22: the sender tracks at most 15 segments, and a segment it has sent is
\* tracked exactly as long as fewer than 15 newer segments have been sent
C22_BoundedHistory ==
    /\ Len(SHM_SENT) <= maxlen
    /\ \A i \in 1..nsent : (i \in Tracked) <=> (nsent - i < maxlen)

\* C22: more than 15 segments were sent; the oldest ones are not tracked any more
C22_Witness ==
    /\ nsent = maxlen + 2
    /\ Len(SHM_SENT) = maxlen
    /\ Head(SHM_SENT) = 3
    /\ 1 \notin Tracked
    /\ 2 \notin Tracked

\* C23: neither side's release of a segment raises, whichever comes second:
\* no decode fails with FileNotFoundError (_cleanup cannot raise it)
C23_SecondReleaseHarmless == rerr = "none"

\* C29: every encode creates a segment of the array's size; the segment of
\* an envelope exists as long as the envelope is not decoded, and is gone
\* once a decode has copied its data and released it
C29_SegmentLifecycle ==
    /\ ~encFailed
    /\ \A e \in flight : [name |-> e.shm, size |-> e.nbytes] \in segs
    /\ \A n \in decoded : n # ropen.shm => ~Exists(n)
    /\ \A e1, e2 \in flight : e1.shm = e2.shm => e1 = e2

\* C30, at the end of a run: when the sender has exited and no envelope is
\* under way or being decoded, no segment exists any more
C30_AllUnlinkedAtEnd ==
    (spc = "exited" /\ flight = {} /\ ropen = NoEnv) => segs = {}

\* C26: the entry that a thread found at line 166, or inserted at line 178,
\* is still its entry when line 181 reads it: _proxy_attr never fails on a
\* missing entry, and hands out an attribute of the proxy mapped to the thread
C26_AtomicProxyAttr ==
    \A t \in Threads :
        /\ pc[t] = "lookup" => InCache(cache, t)
        /\ pc[t] # "KeyError"

\* C27 as stated, in one step: a thread whose entry was evicted and that takes
\* the lock for a new entry gets a proxy that did not exist before, and the
\* cache keeps all its entries
C27_FreshStep ==
    \A t \in Threads :
        (t \in evicted /\ pc[t] = "wait" /\ pc'[t] = "insert") =>
            /\ proxy'[t] \notin Created
            /\ cache' = cache

C27_EvictedThreadGetsFreshConnection == [][C27_FreshStep]_vars

\* C27, amended, in one step: a thread whose entry was evicted and that takes
\* the lock for a new entry finds the cache full; no proxy is created; it
\* gets the proxy of the least recently used entry, which belongs to another
\* thread, becomes its owner, and that thread is evicted in turn, nobody else
C27_RepurposeStep ==
    \A t \in Threads :
        (t \in evicted /\ pc[t] = "wait" /\ pc'[t] = "insert") =>
            /\ Len(cache) = maxsize
            /\ DOMAIN owner' = DOMAIN owner
            /\ cache[1].thread # t
            /\ proxy'[t] = cache[1].proxy
            /\ owner'[proxy'[t]] = t
            /\ conn' = conn
            /\ cache' = Tail(cache)
            /\ evicted' = evicted \cup {cache[1].thread}

\* C27, amended: after an eviction the cache is full whenever the lock is
\* free, so an evicted thread's next entry is always a repurposed one
C27_EvictedThreadRepurposesLru ==
    /\ []((evicted # {} /\ lock = NoThread) => Len(cache) = maxsize)
    /\ [][C27_RepurposeStep]_vars

\* C27: an evicted thread has come back and holds the proxy it took from
\* another thread, which is evicted now
C27_Witness ==
    \E t \in Threads :
        /\ t \in evicted
        /\ pc[t] = "insert"
        /\ lock = t
        /\ Len(cache) = maxsize - 1
        /\ owner[proxy[t]] = t
        /\ \E u \in evicted : u # t /\ ~InCache(cache, u)

\* C28: between a server thread's claim of a handler's proxy and its call on
\* it no other thread claims that proxy: a thread that has claimed a proxy
\* and has yet to call owns it, so no call fails on the owner check
C28_ClaimThenInvokeUninterrupted ==
    \A e \in Workers : epc[e] = "claimed" => hOwner[cur[e]] = e

----------------------------------------------------------------------------
\* Serialization (_serialize.py): PymmcoreSerializer, the IntEnum registration
\* and the Serializer classes.  A value is sent as the result of a call or as
\* an argument of one, packed by msgpack, and unpacked in the other process.

MaxNum == 1         \* numbers, enum members, strings and messages are 0..MaxNum
MaxItems == 1       \* a container holds up to this many items
MaxSize == 1        \* an array holds up to this many elements

Nums == 0..MaxNum

\* the IntEnum classes registered at import (two of those pymmcore_plus exports)
INT_ENUMS == {"DeviceType", "FocusDirection"}

\* the Serializer subclasses, by the class each one handles
RegisteredKinds ==
    {"MDASequence", "MDAEvent", "Configuration", "Metadata", "Pattern", "timedelta",
     "CMMError", "ndarray"}

\* re.compile(p) without flags, and CMMError(msg) without a code
NoFlags == 0
MMERR_GENERIC == 1

IntVal(n) == Val("int", "", n, 0, <<>>)
StrVal(n) == Val("str", "", n, 0, <<>>)
Enum(c, n) == Val("enum", c, n, 0, <<>>)
List(items) == Val("list", "", 0, 0, items)
Tuple(items) == Val("tuple", "", 0, 0, items)
Dict(items) == Val("dict", "", 0, 0, items)
Map(cls, v, w, items) == Val("map", cls, v, w, items)
Exc(name) == Val(name, "", 0, 0, <<>>)

Raised(x) == x.k \in {"TypeError", "ValueError"}

\* str(obj.dtype) and the dtype that np.ndarray(dtype=...) makes of the string
DtypeStr(d) == d + 10
DtypeOf(str) == str - 10

Atoms ==
    {IntVal(n) : n \in Nums}
    \cup {Enum(c, n) : c \in INT_ENUMS, n \in Nums}
    \cup {Val(k, "", v, 0, <<>>) : k \in {"MDASequence", "MDAEvent", "Configuration", "Metadata"},
                                   v \in Nums}
    \cup {Val("Pattern", "", p, f, <<>>) : p \in Nums, f \in Nums}
    \cup {Val("timedelta", "", n, 0, <<>>) : n \in Nums}
    \cup {Val("CMMError", "", m, c, <<>>) : m \in Nums, c \in Nums}
    \cup {Val("ndarray", "", Len(c), d, c) : d \in Nums,
              c \in UNION {[1..n -> {IntVal(e) : e \in Nums}] : n \in 0..MaxSize}}

Containers ==
    {Val(k, "", 0, 0, items) : k \in {"list", "tuple", "dict"},
                              items \in UNION {[1..n -> Atoms] : n \in 0..MaxItems}}

Values == Atoms \cup Containers

\* Serializer.to_dict of the class that handles x (Pyro adds "__class__")
to_dict(x) ==
    CASE x.k = "timedelta" -> Map("timedelta", 0, 0, <<StrVal(x.v)>>)
      [] x.k = "Pattern" -> Map("Pattern", x.v, 0, <<>>)
      [] x.k = "CMMError" -> Map("CMMError", x.v, 0, <<>>)
      [] x.k = "ndarray" ->
            IF x.v = 0 THEN Exc("ValueError")
            ELSE Map("ndarray", x.v, DtypeStr(x.w), <<>>)
      [] OTHER -> Map(x.k, x.v, x.w, <<>>)

\* the contents of the segment SerNDArray.to_dict fills
RECURSIVE Buffer(_)
Buffer(x) ==
    IF x.k = "ndarray" THEN x.items
    ELSE IF x.k \in {"list", "tuple", "dict"} /\ Len(x.items) > 0 THEN Buffer(x.items[1])
    ELSE <<>>

\* Serializer.from_dict of the class d names
from_dict(d, buf) ==
    CASE d.cls = "timedelta" ->
            IF d.items[1].k = "str" THEN Exc("TypeError")
            ELSE Val("timedelta", "", d.items[1].v, 0, <<>>)
      [] d.cls = "Pattern" -> Val("Pattern", "", d.v, NoFlags, <<>>)
      [] d.cls = "CMMError" -> Val("CMMError", "", d.v, MMERR_GENERIC, <<>>)
      [] d.cls = "ndarray" -> Val("ndarray", "", d.v, DtypeOf(d.w), SubSeq(buf, 1, d.v))
      [] OTHER -> Val(d.cls, "", d.v, d.w, <<>>)

\* the hook registered for every IntEnum class
dict_to_enum(d) == Enum(d.cls, d.v)

\* the first exception among the items, if any
FirstRaised(items) ==
    IF \E i \in DOMAIN items : Raised(items[i])
    THEN items[CHOOSE i \in DOMAIN items :
                   Raised(items[i]) /\ \A j \in DOMAIN items : Raised(items[j]) => i <= j]
    ELSE NoVal

\* msgpack.packb with Pyro's default hook: an int subclass is packed as the
\* int it is, a tuple as an array, an instance of a registered class as the
\* mapping its to_dict returns
RECURSIVE packb(_)
packb(x) ==
    CASE x.k \in {"int", "str"} -> x
      [] x.k = "enum" -> IntVal(x.v)
      [] x.k \in {"list", "tuple", "dict", "map"} ->
            LET items == [i \in DOMAIN x.items |-> packb(x.items[i])]
            IN  IF Raised(FirstRaised(items)) THEN FirstRaised(items)
                ELSE IF x.k \in {"list", "tuple"} THEN List(items)
                ELSE Map(x.cls, x.v, x.w, items)
      [] x.k \in RegisteredKinds -> packb(to_dict(x))
      [] OTHER -> x

\* PymmcoreSerializer.dumps: an IntEnum becomes a tagged mapping, then packb
dumps(data) ==
    IF data.k = "enum" THEN packb(Map(data.cls, data.v, 0, <<>>)) ELSE packb(data)

\* MsgpackSerializer.dumpsCall, which PymmcoreSerializer inherits: packb of
\* (obj, method, vargs, kwargs), without a call to dumps
dumpsCall(vargs) == packb(vargs)

\* msgpack.unpackb with Pyro's object_hook: a mapping that names a class goes
\* to the hook registered for the class
RECURSIVE unpackb(_, _)
unpackb(w, buf) ==
    CASE w.k = "list" ->
            LET items == [i \in DOMAIN w.items |-> unpackb(w.items[i], buf)]
            IN  IF Raised(FirstRaised(items)) THEN FirstRaised(items) ELSE List(items)
      [] w.k = "map" ->
            LET items == [i \in DOMAIN w.items |-> unpackb(w.items[i], buf)]
                d == Map(w.cls, w.v, w.w, items)
            IN  IF Raised(FirstRaised(items)) THEN FirstRaised(items)
                ELSE IF w.cls \in INT_ENUMS THEN dict_to_enum(d)
                ELSE IF w.cls \in RegisteredKinds THEN from_dict(d, buf)
                ELSE Dict(items)
      [] OTHER -> w

\* A process sends x, as the result of a call or as the one argument of a call.
SerCall(x, pos) ==
    /\ serpc = "idle"
    /\ sval' = x
    /\ spos' = pos
    /\ wire' = IF pos = "result" THEN dumps(x) ELSE dumpsCall(Tuple(<<x>>))
    /\ sbuf' = IF Raised(wire') THEN <<>> ELSE Buffer(x)
    /\ serpc' = IF Raised(wire') THEN "raised" ELSE "sent"
    /\ UNCHANGED rval

\* The other process unpacks the message; the argument is the first of vargs.
SerLoads ==
    /\ serpc = "sent"
    /\ rval' = LET r == unpackb(wire, sbuf)
               IN  IF spos = "arg" /\ ~Raised(r) THEN r.items[1] ELSE r
    /\ serpc' = "received"
    /\ UNCHANGED <<sval, spos, wire, sbuf>>

SerDone ==
    /\ serpc \in {"received", "raised"}
    /\ serpc' = "idle"
    /\ sval' = NoVal
    /\ spos' = "result"
    /\ wire' = NoVal
    /\ sbuf' = <<>>
    /\ rval' = NoVal

NextSer ==
    \/ \E x \in Values, pos \in {"result", "arg"} :
          SerCall(x, pos)
          /\ UNCHANGED <<poolVars, reentVars, rrVars, emitVars, mdaVars, procVars, instVars,
                         shmVars, srvVars, lsnVars>>
    \/ SerLoads
          /\ UNCHANGED <<poolVars, reentVars, rrVars, emitVars, mdaVars, procVars, instVars,
                         shmVars, srvVars, lsnVars>>
    \/ SerDone
          /\ UNCHANGED <<poolVars, reentVars, rrVars, emitVars, mdaVars, procVars, instVars,
                         shmVars, srvVars, lsnVars>>

SpecSer == Init /\ [][NextSer]_vars

\* every enum in x is the same member of the same class in y
RECURSIVE EnumsKept(_, _)
EnumsKept(x, y) ==
    CASE x.k = "enum" -> y = x
      [] x.k \in {"list", "tuple", "dict"} ->
            /\ Len(y.items) = Len(x.items)
            /\ \A i \in DOMAIN x.items : EnumsKept(x.items[i], y.items[i])
      [] OTHER -> TRUE

\* C24: an enum value that is sent arrives as the same member of the same enum
\* type, whether it is the value itself, an item of a list, tuple or mapping, or
\* an argument of a call
C24_EnumArrivesAsSameMember ==
    (serpc = "received" /\ ~Raised(rval)) => EnumsKept(sval, rval)

\* the equality that matters for each registered type; an error is its message
SameValue(x, y) ==
    IF x.k = "CMMError" THEN y.k = "CMMError" /\ y.v = x.v ELSE y = x

\* C25: for every registered type, encoding a value and decoding the result
\* gives a value equal to the one that was encoded
C25_DecodeOfEncodeIsEqual ==
    sval.k \in RegisteredKinds =>
        /\ serpc # "raised"
        /\ serpc = "received" => SameValue(sval, rval)

----------------------------------------------------------------------------
\* Startup of the daemon (server/_server.py: serve) and of the serializers
\* (_serialize.py: register_serializers).  serve registers the class
\* RemoteCMMCorePlus, whose instance mode is "single": the daemon constructs
\* the one instance when the first call for it arrives.

MaxFail == 2        \* constructions of the facade that may fail

PYMMCORE_SERIALIZER == "pymmcore-serializer"

\* the serializers a deployment can configure
Serializers == {"serpent", "json", "marshal", "msgpack"}

\* register_numpy_serializer: the strategy it registers, given
\* Pyro5.config.SERIALIZER and whether msgpack_numpy imports
register_numpy_serializer(serializer, installed) ==
    IF serializer = "msgpack" /\ installed THEN "inline" ELSE "shm"

\* register_serializers: sets the serializer, then registers the array strategy
register_serializers ==
    /\ SERIALIZER' = PYMMCORE_SERIALIZER
    /\ strategy' = register_numpy_serializer(SERIALIZER', plugin)

\* The deployment configures the serializer and installs the plugin, or not.
Deploy(ser, installed) ==
    /\ svpc = "idle"
    /\ SERIALIZER' = ser
    /\ configured' = ser
    /\ plugin' = installed
    /\ UNCHANGED <<svpc, strategy, single, nfail, cpc, cres>>

\* serve, up to requestLoop: the serializers, the daemon, the class registered.
Serve ==
    /\ svpc = "idle"
    /\ register_serializers
    /\ svpc' = "listening"
    /\ UNCHANGED <<configured, plugin, single, nfail, cpc, cres>>

\* serve when the daemon cannot bind its address: Daemon(host, port) raises.
ServeBindFail ==
    /\ svpc = "idle"
    /\ register_serializers
    /\ svpc' = "raised"
    /\ UNCHANGED <<configured, plugin, single, nfail, cpc, cres>>

\* A client calls a method of the core (ping, say).
Call(c) ==
    /\ svpc = "listening"
    /\ cpc[c] = "idle"
    /\ cpc' = [cpc EXCEPT ![c] = "sent"]
    /\ cres' = [cres EXCEPT ![c] = "none"]
    /\ UNCHANGED <<svpc, SERIALIZER, configured, plugin, strategy, single, nfail>>

\* The daemon handles the call with the instance it holds.
Handle(c) ==
    /\ svpc = "listening"
    /\ cpc[c] = "sent"
    /\ single
    /\ cpc' = [cpc EXCEPT ![c] = "idle"]
    /\ cres' = [cres EXCEPT ![c] = "pong"]
    /\ UNCHANGED <<svpc, SERIALIZER, configured, plugin, strategy, single, nfail>>

\* The daemon holds no instance: RemoteCMMCorePlus.__init__ runs, and succeeds.
HandleConstruct(c) ==
    /\ svpc = "listening"
    /\ cpc[c] = "sent"
    /\ ~single
    /\ single' = TRUE
    /\ cpc' = [cpc EXCEPT ![c] = "idle"]
    /\ cres' = [cres EXCEPT ![c] = "pong"]
    /\ UNCHANGED <<svpc, SERIALIZER, configured, plugin, strategy, nfail>>

\* RemoteCMMCorePlus.__init__ raises: the exception is the reply to the call,
\* and the daemon goes on serving.
HandleConstructFail(c) ==
    /\ svpc = "listening"
    /\ cpc[c] = "sent"
    /\ ~single
    /\ nfail < MaxFail
    /\ nfail' = nfail + 1
    /\ cpc' = [cpc EXCEPT ![c] = "idle"]
    /\ cres' = [cres EXCEPT ![c] = "error"]
    /\ UNCHANGED <<svpc, SERIALIZER, configured, plugin, strategy, single>>

\* Ctrl+C ends requestLoop and the daemon closes; calls in progress are lost.
Stop ==
    /\ svpc = "listening"
    /\ svpc' = "stopped"
    /\ cpc' = [c \in Clients |-> "idle"]
    /\ UNCHANGED <<SERIALIZER, configured, plugin, strategy, single, nfail, cres>>

NextServe ==
    \/ \E ser \in Serializers, installed \in BOOLEAN :
          Deploy(ser, installed)
          /\ UNCHANGED <<poolVars, reentVars, rrVars, emitVars, mdaVars, procVars, instVars,
                         shmVars, serVars, lsnVars>>
    \/ Serve
          /\ UNCHANGED <<poolVars, reentVars, rrVars, emitVars, mdaVars, procVars, instVars,
                         shmVars, serVars, lsnVars>>
    \/ ServeBindFail
          /\ UNCHANGED <<poolVars, reentVars, rrVars, emitVars, mdaVars, procVars, instVars,
                         shmVars, serVars, lsnVars>>
    \/ \E c \in Clients :
          Call(c)
          /\ UNCHANGED <<poolVars, reentVars, rrVars, emitVars, mdaVars, procVars, instVars,
                         shmVars, serVars, lsnVars>>
    \/ \E c \in Clients :
          Handle(c)
          /\ UNCHANGED <<poolVars, reentVars, rrVars, emitVars, mdaVars, procVars, instVars,
                         shmVars, serVars, lsnVars>>
    \/ \E c \in Clients :
          HandleConstruct(c)
          /\ UNCHANGED <<poolVars, reentVars, rrVars, emitVars, mdaVars, procVars, instVars,
                         shmVars, serVars, lsnVars>>
    \/ \E c \in Clients :
          HandleConstructFail(c)
          /\ UNCHANGED <<poolVars, reentVars, rrVars, emitVars, mdaVars, procVars, instVars,
                         shmVars, serVars, lsnVars>>
    \/ Stop
          /\ UNCHANGED <<poolVars, reentVars, rrVars, emitVars, mdaVars, procVars, instVars,
                         shmVars, serVars, lsnVars>>

SpecServe == Init /\ [][NextServe]_vars

\* C31: when the construction of the facade fails, serve has raised, and no
\* client's call is what reports the failure
C31_ConstructionFailureRaisedByServe ==
    nfail > 0 => (svpc = "raised" /\ \A c \in Clients : cres[c] # "error")

\* C32: the strategy registered at startup is the inline one when the
\* deployment configured msgpack and the plugin is installed, and the
\* shared-memory one otherwise
C32_StrategyFollowsConfiguration ==
    strategy # "none" =>
        strategy = (IF configured = "msgpack" /\ plugin THEN "inline" ELSE "shm")

----------------------------------------------------------------------------
\* The callback listener of a client process (client.py: _DaemonThread).
\* Each connection (MMCorePlusProxy, MDARunnerProxy) creates a handler and
\* registers it with _DaemonThread.instance("CallbackDaemon").api_daemon.
\* instance() takes no lock, and the lock of a ProxyHandler is its own, so two
\* threads that create connections run instance() side by side.  A listener is
\* named by the thread that constructed it; its thread is a daemon thread and
\* runs until the process ends.

MaxConns == 2       \* connections a thread creates

\* line 107, the name is not in _instances: the thread goes on to construct
InstanceMiss(t) ==
    /\ lpc[t] = "idle"
    /\ nconn[t] < MaxConns
    /\ registry = NoListener
    /\ lpc' = [lpc EXCEPT ![t] = "construct"]
    /\ UNCHANGED <<registry, alive, lgot, nregs, nconn>>

\* line 107, the name is in _instances
InstanceHit(t) ==
    /\ lpc[t] = "idle"
    /\ nconn[t] < MaxConns
    /\ registry # NoListener
    /\ lpc' = [lpc EXCEPT ![t] = "return"]
    /\ UNCHANGED <<registry, alive, lgot, nregs, nconn>>

\* _DaemonThread.__init__: a daemon is created and its thread started
DaemonThreadInit(t) ==
    /\ lpc[t] = "construct"
    /\ alive' = alive \cup {t}
    /\ lpc' = [lpc EXCEPT ![t] = "store"]
    /\ UNCHANGED <<registry, lgot, nregs, nconn>>

\* line 108, the assignment to _instances[name]
InstanceStore(t) ==
    /\ lpc[t] = "store"
    /\ registry' = t
    /\ lpc' = [lpc EXCEPT ![t] = "return"]
    /\ UNCHANGED <<alive, lgot, nregs, nconn>>

\* line 109, return cls._instances[name]
InstanceReturn(t) ==
    /\ lpc[t] = "return"
    /\ lgot' = [lgot EXCEPT ![t] = registry]
    /\ lpc' = [lpc EXCEPT ![t] = "register"]
    /\ UNCHANGED <<registry, alive, nregs, nconn>>

\* api_daemon.register(events): the handler is registered with the listener
RegisterEvents(t) ==
    /\ lpc[t] = "register"
    /\ nregs' = [nregs EXCEPT ![lgot[t]] = @ + 1]
    /\ nconn' = [nconn EXCEPT ![t] = @ + 1]
    /\ lpc' = [lpc EXCEPT ![t] = "idle"]
    /\ UNCHANGED <<registry, alive, lgot>>

NextListen ==
    \/ \E t \in LThreads :
          InstanceMiss(t)
          /\ UNCHANGED <<poolVars, reentVars, rrVars, emitVars, mdaVars, procVars, instVars,
                         shmVars, serVars, srvVars>>
    \/ \E t \in LThreads :
          InstanceHit(t)
          /\ UNCHANGED <<poolVars, reentVars, rrVars, emitVars, mdaVars, procVars, instVars,
                         shmVars, serVars, srvVars>>
    \/ \E t \in LThreads :
          DaemonThreadInit(t)
          /\ UNCHANGED <<poolVars, reentVars, rrVars, emitVars, mdaVars, procVars, instVars,
                         shmVars, serVars, srvVars>>
    \/ \E t \in LThreads :
          InstanceStore(t)
          /\ UNCHANGED <<poolVars, reentVars, rrVars, emitVars, mdaVars, procVars, instVars,
                         shmVars, serVars, srvVars>>
    \/ \E t \in LThreads :
          InstanceReturn(t)
          /\ UNCHANGED <<poolVars, reentVars, rrVars, emitVars, mdaVars, procVars, instVars,
                         shmVars, serVars, srvVars>>
    \/ \E t \in LThreads :
          RegisterEvents(t)
          /\ UNCHANGED <<poolVars, reentVars, rrVars, emitVars, mdaVars, procVars, instVars,
                         shmVars, serVars, srvVars>>

SpecListen == Init /\ [][NextListen]_vars

\* C33: a client process has at most one callback listener, and every
\* handler is registered with that one listener
C33_OneCallbackListener ==
    /\ Cardinality(alive) <= 1
    /\ Cardinality({l \in LThreads : nregs[l] > 0}) <= 1

----------------------------------------------------------------------------
\* C34: a construction that failed because the daemon is not reachable leaves
\* no trace in the registry: no key names the pool whose construction failed,
\* and instance() never returns it
C34_FailedConstructionNotRegistered ==
    /\ \A k \in Keys : instances[k] \notin broken
    /\ \A t \in IThreads :
          (ipc[t] = "done" /\ iop[t] = "instance" /\ ierr[t] = "none") =>
              ires[t] \notin broken

====
